---- MODULE Spec2Model ----
(***************************************************************************)
(* Model of the dataspec core: the business rule validator                 *)
(* (TableValidator) and the SQL generator (SQLGenerator) of                *)
(* src/core/validators/table-validator.ts, with the zod schema of          *)
(* src/core/schemas/table.schema.ts.                                       *)
(*                                                                         *)
(* Text.  A JavaScript string is modelled as a sequence of characters,     *)
(* each character a one-element token: <<"d","w",".","a">> is 'dw.a'.      *)
(* The CJK characters of the source are written by their pinyin, one token *)
(* per character: <<"[","qing","tian","xie","]">> is the five-character    *)
(* placeholder sentinel, <<"wei","zhi","ding">> the three-character        *)
(* 'unspecified' marker.  A generated SQL text is a sequence of lines and  *)
(* a line is a sequence of the pieces the code concatenates.               *)
(***************************************************************************)
EXTENDS Integers, Sequences, FiniteSets, TLC

VARIABLES
    table,      \* the TableDefinition handed to the validator / generator
    result,     \* outcome of the last TableValidator.validate call
    dialect,    \* SQLGenerator.dialect, the instance's default dialect
    sql,        \* outcome of the last SQLGenerator call
    content,    \* the Markdown text handed to a parser
    parsed,     \* the last parse call: parser, text and outcome
    earlier,    \* the calls made before the last one, oldest first
    discovered, \* validate command: the table files ItemDiscovery found
    cmdOptions, \* validate command: its ValidateOptions
    results,    \* validate command: the counters and entries of tables and metrics
    cursor,     \* validate command: position of the table loop in the list
    pc,         \* validate command: where the command is
    exitCode,   \* validate command: the code the process exits with
    output,     \* validate command: status of the JSON output, when printed
    commands,   \* CommandRegistry.commands: the registered commands, in insertion order
    categories, \* CommandRegistry.categories: the list of commands of each category
    executed    \* outcome of the last CommandRegistry.execute call

parserVars == <<content, parsed, earlier>>
commandVars == <<discovered, cmdOptions, results, cursor, pc, exitCode, output>>
registryVars == <<commands, categories, executed>>

vars == <<table, result, dialect, sql, parserVars, commandVars, registryVars>>

(***************************************************************************)
(* Bounds of the model.                                                    *)
(***************************************************************************)
MaxFields == 4      \* longest field list of a validated table
MaxSources == 2     \* longest dataSources list of a validated table
MaxGenFields == 2   \* longest field list of a table handed to the generator
MaxKeys == 2        \* longest partitionKeys list of a table handed to the generator
MaxRows == 2        \* most data rows of a field table handed to the parser
MaxTables == 2      \* most table files the validate command discovers
MaxCalls == 3       \* most parse calls made one after another
MaxGeneratorCalls == 2 \* most generator calls made one after another
MaxRegistrations == 3 \* most register calls made on one registry

(***************************************************************************)
(* Characters and string primitives.                                       *)
(***************************************************************************)
LowerCase == {"a","b","c","d","e","f","g","h","i","j","k","l","m",
              "n","o","p","q","r","s","t","u","v","w","x","y","z"}

Digits == {"0","1","2","3","4","5","6","7","8","9"}

\* n copies of the character c
Repeat(c, n) == [i \in 1..n |-> c]

\* String.prototype.includes
Includes(s, sub) ==
    \E i \in 0..(Len(s) - Len(sub)) : SubSeq(s, i + 1, i + Len(sub)) = sub

\* String.prototype.split('.') : the pieces between the dots, at least one
RECURSIVE SplitDot(_)
SplitDot(s) ==
    IF \A i \in 1..Len(s) : s[i] # "."
    THEN <<s>>
    ELSE LET k == CHOOSE i \in 1..Len(s) :
                      s[i] = "." /\ \A j \in 1..(i - 1) : s[j] # "."
         IN  <<SubSeq(s, 1, k - 1)>> \o SplitDot(SubSeq(s, k + 1, Len(s)))

\* /^[a-z_]+\.[a-z_]+$/
MatchesTableName(s) ==
    \E k \in 2..(Len(s) - 1) :
        /\ s[k] = "."
        /\ \A i \in 1..Len(s) : i # k => s[i] \in LowerCase \cup {"_"}

\* /^[a-z_][a-z0-9_]*$/
MatchesFieldName(s) ==
    /\ Len(s) >= 1
    /\ s[1] \in LowerCase \cup {"_"}
    /\ \A i \in 2..Len(s) : s[i] \in LowerCase \cup Digits \cup {"_"}

\* Array.indexOf, 1-based; 0 when absent
IndexOf(seq, x) ==
    IF \E i \in 1..Len(seq) : seq[i] = x
    THEN CHOOSE i \in 1..Len(seq) : seq[i] = x /\ \A j \in 1..(i - 1) : seq[j] # x
    ELSE 0

\* Distinct without the Set: every occurrence is kept
DistinctKeepsRepeats(seq) == seq

\* [...new Set(seq)] : first occurrences, in order
Distinct(seq) ==
    LET idx == SelectSeq([i \in 1..Len(seq) |-> i], LAMBDA i : IndexOf(seq, seq[i]) = i)
    IN  [k \in 1..Len(idx) |-> seq[idx[k]]]

(***************************************************************************)
(* Literals of the source.                                                 *)
(***************************************************************************)
Placeholder == <<"[", "qing", "tian", "xie", "]">>
Unspecified == <<"wei", "zhi", "ding">>
UpdateFrequencies == {"realtime", "hourly", "daily", "weekly"}
MaxLocalNameLen == 50
MinDescriptionLen == 10
MinFieldDescriptionLen == 2

(***************************************************************************)
(* Findings.  message is the fixed text of the finding (text) with the     *)
(* values the code interpolates into it (args).                            *)
(***************************************************************************)
Finding(type, text, args, path, severity) ==
    [type |-> type, message |-> [text |-> text, args |-> args],
     path |-> path, severity |-> severity]

\* the issue zod reports at a dotted location, as validate() records it
SchemaError(text, path) == Finding("SCHEMA_ERROR", text, <<>>, path, "error")

(***************************************************************************)
(* TableDefinitionSchema.safeParse: the issues in the order zod finds      *)
(* them, i.e. the order of the keys of the schema; an array reports its    *)
(* own length first and then its elements, a string its checks in the      *)
(* order they are declared.                                                *)
(***************************************************************************)
FieldSchemaErrors(field, i) ==
    LET at(attr) == <<"fields", ".", ToString(i), ".", attr>>
    IN  (IF Len(field.name) < 1
           THEN <<SchemaError("too_small", at("name"))>> ELSE <<>>)
     \o (IF ~MatchesFieldName(field.name)
           THEN <<SchemaError("field name format", at("name"))>> ELSE <<>>)
     \o (IF Len(field.type) < 1
           THEN <<SchemaError("too_small", at("type"))>> ELSE <<>>)
     \o (IF Len(field.description) < 1
           THEN <<SchemaError("too_small", at("description"))>> ELSE <<>>)

RECURSIVE FieldsSchemaErrors(_, _)
FieldsSchemaErrors(fields, i) ==
    IF i >= Len(fields) THEN <<>>
    ELSE FieldSchemaErrors(fields[i + 1], i) \o FieldsSchemaErrors(fields, i + 1)

TableDefinitionSchema(t) ==
       (IF t.metadata.format # "dataspec-table"
          THEN <<SchemaError("invalid_literal", <<"metadata", ".", "format">>)>> ELSE <<>>)
    \o (IF ~MatchesTableName(t.name)
          THEN <<SchemaError("table name format", <<"name">>)>> ELSE <<>>)
    \o (IF Len(t.displayName) < 1
          THEN <<SchemaError("too_small", <<"displayName">>)>> ELSE <<>>)
    \o (IF Len(t.description) < MinDescriptionLen
          THEN <<SchemaError("description min 10", <<"description">>)>> ELSE <<>>)
    \o (IF Len(t.owner) < 1
          THEN <<SchemaError("too_small", <<"owner">>)>> ELSE <<>>)
    \o (IF t.updateFrequency \notin UpdateFrequencies
          THEN <<SchemaError("invalid_enum_value", <<"updateFrequency">>)>> ELSE <<>>)
    \o (IF Len(t.fields) < 1
          THEN <<SchemaError("at least one field", <<"fields">>)>> ELSE <<>>)
    \o FieldsSchemaErrors(t.fields, 0)
    \o (IF Len(t.dataSources) < 1
          THEN <<SchemaError("at least one data source", <<"dataSources">>)>> ELSE <<>>)

(***************************************************************************)
(* The five business rule checks.  Each takes the findings collected so    *)
(* far and returns them with its own appended; validateTableName may       *)
(* instead throw (threw = TRUE), which ends validate().                    *)
(***************************************************************************)
validateTableName(t, errors) ==
    LET e1 == IF ~MatchesTableName(t.name)
              THEN Append(errors, Finding("INVALID_TABLE_NAME", "table name format",
                                          <<>>, <<"name">>, "error"))
              ELSE errors
        parts == SplitDot(t.name)
    IN  IF Len(parts) < 2
        THEN \* parts[1] is undefined: reading .length throws a TypeError
             [threw |-> TRUE, errors |-> e1]
        ELSE [threw |-> FALSE,
              errors |-> IF Len(parts[2]) > MaxLocalNameLen
                         THEN Append(e1, Finding("TABLE_NAME_TOO_LONG", "table name too long",
                                                 <<>>, <<"name">>, "warning"))
                         ELSE e1]

\* FieldFindings with the short description reported as an error
FieldFindingsShortIsError(field, i) ==
       (IF ~MatchesFieldName(field.name)
          THEN <<Finding("INVALID_FIELD_NAME", "field name format", <<field.name>>,
                         <<"fields[", ToString(i), "].name">>, "error")>>
          ELSE <<>>)
    \o (IF Len(field.description) < MinFieldDescriptionLen
          THEN <<Finding("INSUFFICIENT_FIELD_DESCRIPTION", "field description too short",
                         <<field.name>>,
                         <<"fields[", ToString(i), "].description">>, "error")>>
          ELSE <<>>)

FieldFindings(field, i) ==
       (IF ~MatchesFieldName(field.name)
          THEN <<Finding("INVALID_FIELD_NAME", "field name format", <<field.name>>,
                         <<"fields[", ToString(i), "].name">>, "error")>>
          ELSE <<>>)
    \o (IF Len(field.description) < MinFieldDescriptionLen
          THEN <<Finding("INSUFFICIENT_FIELD_DESCRIPTION", "field description too short",
                         <<field.name>>,
                         <<"fields[", ToString(i), "].description">>, "warning")>>
          ELSE <<>>)

\* a loop that looks at the first field only
EachFieldFindingsFirstOnly(fields, i) ==
    IF i >= Len(fields) \/ i > 0 THEN <<>> ELSE FieldFindings(fields[i + 1], i)

RECURSIVE EachFieldFindings(_, _)
EachFieldFindings(fields, i) ==
    IF i >= Len(fields) THEN <<>>
    ELSE FieldFindings(fields[i + 1], i) \o EachFieldFindings(fields, i + 1)

\* fieldNames.filter((name, index) => fieldNames.indexOf(name) !== index)
Duplicates(fieldNames) ==
    LET idx == SelectSeq([i \in 1..Len(fieldNames) |-> i],
                         LAMBDA i : IndexOf(fieldNames, fieldNames[i]) # i)
    IN  [k \in 1..Len(idx) |-> fieldNames[idx[k]]]

validateFields(t, errors) ==
    LET fieldNames == [i \in 1..Len(t.fields) |-> t.fields[i].name]
        duplicates == Duplicates(fieldNames)
        e1 == IF Len(duplicates) > 0
              THEN Append(errors, Finding("DUPLICATE_FIELD_NAMES", "duplicate field names",
                                          Distinct(duplicates), <<"fields">>, "error"))
              ELSE errors
    IN  e1 \o EachFieldFindings(t.fields, 0)

\* validateOwner without the placeholder test
validateOwnerEmptyOnly(t, errors) ==
    IF t.owner = <<>>
    THEN Append(errors, Finding("NO_OWNER", "owner required", <<>>, <<"owner">>, "error"))
    ELSE errors

validateOwner(t, errors) ==
    IF t.owner = <<>> \/ Includes(t.owner, Placeholder)
    THEN Append(errors, Finding("NO_OWNER", "owner required", <<>>, <<"owner">>, "error"))
    ELSE errors

\* validateDescription that objects to the missing description only
validateDescriptionEmptyOnly(t, errors) ==
    IF t.description = <<>>
    THEN Append(errors, Finding("INSUFFICIENT_DESCRIPTION", "description min 10", <<>>,
                                <<"description">>, "warning"))
    ELSE errors

validateDescription(t, errors) ==
    IF t.description = <<>> \/ Len(t.description) < MinDescriptionLen
    THEN Append(errors, Finding("INSUFFICIENT_DESCRIPTION", "description min 10", <<>>,
                                <<"description">>, "warning"))
    ELSE errors

validateDataSources(t, errors) ==
    IF \/ Len(t.dataSources) = 0
       \/ \E i \in 1..Len(t.dataSources) :
              Includes(t.dataSources[i], Placeholder) \/ t.dataSources[i] = Unspecified
    THEN Append(errors, Finding("NO_DATA_SOURCES", "at least one valid data source", <<>>,
                                <<"dataSources">>, "error"))
    ELSE errors

IsError(e) == e.severity = "error"
IsWarning(e) == e.severity = "warning"

\* the findings validate() has pooled when it reaches its return statement
PooledFindings(t) ==
    validateDataSources(t,
      validateDescription(t,
        validateOwner(t,
          validateFields(t,
            validateTableName(t, TableDefinitionSchema(t)).errors))))

\* validate with valid computed from the unfiltered list (errors.length === 0)
validateValidCountsAll(t) ==
    IF validateTableName(t, TableDefinitionSchema(t)).threw
    THEN [outcome |-> "threw", error |-> "TypeError"]
    ELSE LET errors == PooledFindings(t)
         IN  [outcome  |-> "returned",
              valid    |-> Len(errors) = 0,
              errors   |-> SelectSeq(errors, IsError),
              warnings |-> SelectSeq(errors, IsWarning)]

\* TableValidator.validate: the ValidationResult, or the exception
validate(t) ==
    IF validateTableName(t, TableDefinitionSchema(t)).threw
    THEN [outcome |-> "threw", error |-> "TypeError"]
    ELSE LET errors == PooledFindings(t)
         IN  [outcome  |-> "returned",
              valid    |-> Len(SelectSeq(errors, IsError)) = 0,
              errors   |-> SelectSeq(errors, IsError),
              warnings |-> SelectSeq(errors, IsWarning)]

(***************************************************************************)
(* Inputs of the validator.  An optional attribute is <<>> when absent     *)
(* (undefined) and <<v>> when it holds v.                                  *)
(***************************************************************************)
Undefined == <<>>
Some(v) == <<v>>

TypeSTRING == <<"S","T","R","I","N","G">>
TypeINT == <<"I","N","T">>

NameSalesDaily == <<"d","w",".","s","a","l","e","s","_","d","a","i","l","y">>
NameNoDot == <<"s","a","l","e","s">>
NameUpperCase == <<"D","w",".","s","a","l","e","s">>
NameTwoDots == <<"a",".","b",".","c">>
NameLocalAtLimit == <<"d","w",".">> \o Repeat("a", MaxLocalNameLen)
NameLocalOverLimit == <<"d","w",".">> \o Repeat("a", MaxLocalNameLen + 1)

TableNames == {NameSalesDaily, NameNoDot, NameUpperCase, NameTwoDots,
               NameLocalAtLimit, NameLocalOverLimit}

OwnerZhangSan == <<"zhang", "san">>
Owners == {<<>>, Placeholder, OwnerZhangSan, OwnerZhangSan \o Placeholder}

DisplayNames == {<<>>, <<"xiao", "shou", "ri", "biao">>}

Descriptions == {<<>>, Repeat("c", MinDescriptionLen - 1), Repeat("c", MinDescriptionLen)}

Frequencies == {"daily", "monthly"}

FieldX == [name |-> <<"x">>, type |-> TypeSTRING,
           description |-> <<"ding", "dan">>, nullable |-> FALSE]
FieldY == [name |-> <<"y", "_", "1">>, type |-> TypeINT,
           description |-> <<"e">>, nullable |-> TRUE]
FieldBadName == [name |-> <<"1", "x">>, type |-> TypeSTRING,
                 description |-> <<"jin", "e">>, nullable |-> TRUE]
FieldXBlank == [name |-> <<"x">>, type |-> <<>>,
                description |-> <<>>, nullable |-> TRUE]

FieldPool == {FieldX, FieldY, FieldBadName, FieldXBlank}

OdsOrders == <<"o","d","s",".","o","r","d","e","r","s">>
SourcePool == {OdsOrders, Unspecified, Placeholder}

\* the sequences over S of length at most n
SeqsUpTo(S, n) == UNION {[1..k -> S] : k \in 0..n}

BaseTable ==
    [metadata        |-> [format |-> "dataspec-table", version |-> "1.0"],
     name            |-> NameSalesDaily,
     displayName     |-> <<"xiao", "shou", "ri", "biao">>,
     description     |-> Repeat("c", MinDescriptionLen),
     owner           |-> OwnerZhangSan,
     updateFrequency |-> "daily",
     fields          |-> <<FieldX, FieldY>>,
     partitionKeys   |-> Undefined,
     dataSources     |-> <<OdsOrders>>]

\* every combination of the scalar attributes, over short lists
ScalarTables ==
    {[BaseTable EXCEPT !.name = n, !.displayName = dn, !.description = d, !.owner = o,
                       !.updateFrequency = u, !.fields = fs, !.dataSources = ds] :
        n \in TableNames, dn \in DisplayNames, d \in Descriptions, o \in Owners,
        u \in Frequencies, fs \in SeqsUpTo(FieldPool, 1), ds \in SeqsUpTo(SourcePool, 1)}

\* every field list and data source list within the bounds, with or without a
\* partition key that names no field
ListTables ==
    {[BaseTable EXCEPT !.fields = fs, !.dataSources = ds, !.partitionKeys = pk] :
        fs \in SeqsUpTo(FieldPool, MaxFields), ds \in SeqsUpTo(SourcePool, MaxSources),
        pk \in {Undefined, Some(<< <<"d", "t">> >>)}}

ValidatorTables == ScalarTables \cup ListTables

NotRun == [outcome |-> "none"]

(***************************************************************************)
(* The validator as a state machine: a table is handed to validate().      *)
(***************************************************************************)
\* the counters of validateCommand before anything is counted
NoResults == [total |-> 0, passed |-> 0, failed |-> 0, warnings |-> 0, errors |-> <<>>]

\* no parser has been called
ParserIdle ==
    /\ content = <<>>
    /\ parsed = NotRun
    /\ earlier = <<>>

\* the validate command is not running
CommandIdle ==
    /\ discovered = [tables |-> <<>>, metrics |-> <<>>]
    /\ cmdOptions = [type |-> Undefined, json |-> FALSE, verbose |-> FALSE]
    /\ results = [tables |-> NoResults, metrics |-> NoResults]
    /\ cursor = 0
    /\ pc = "idle"
    /\ exitCode = 0
    /\ output = Undefined

\* type CommandCategory
CommandCategory ==
    {"project", "table", "metric", "generate", "validate", "search", "config", "help"}

\* a new CommandRegistry: two empty maps, nothing executed
RegistryIdle ==
    /\ commands = <<>>
    /\ categories = [category \in CommandCategory |-> <<>>]
    /\ executed = NotRun

InitValidator ==
    /\ table \in ValidatorTables
    /\ result = NotRun
    /\ dialect = "hive"
    /\ sql = NotRun
    /\ ParserIdle
    /\ CommandIdle
    /\ RegistryIdle

Validate ==
    /\ result' = validate(table)
    /\ UNCHANGED <<table, dialect, sql, parserVars, commandVars, registryVars>>

NextValidator == Validate

SpecValidator == InitValidator /\ [][NextValidator]_vars

(***************************************************************************)
(* Claims about the validator (checked under SpecValidator).               *)
(***************************************************************************)
Returned == result.outcome = "returned"

\* the findings of one kind in a list
OfType(findings, type) == SelectSeq(findings, LAMBDA e : e.type = type)

\* a is b with some elements left out, the others in their order
RECURSIVE IsSubsequence(_, _)
IsSubsequence(a, b) ==
    IF a = <<>> THEN TRUE
    ELSE IF b = <<>> THEN FALSE
    ELSE IF Head(a) = Head(b) THEN IsSubsequence(Tail(a), Tail(b))
    ELSE IsSubsequence(a, Tail(b))

\* C1: valid is true if and only if errors is empty; errors holds the pooled
\* findings of severity 'error', warnings those of severity 'warning', every
\* pooled finding in exactly one of the two lists and in its original order.
ThmC1 ==
    Returned =>
        LET pooled == PooledFindings(table)
        IN  /\ result.valid <=> (Len(result.errors) = 0)
            /\ \A i \in 1..Len(result.errors) : result.errors[i].severity = "error"
            /\ \A i \in 1..Len(result.warnings) : result.warnings[i].severity = "warning"
            /\ \A i \in 1..Len(pooled) : pooled[i].severity \in {"error", "warning"}
            /\ Len(result.errors) + Len(result.warnings) = Len(pooled)
            /\ IsSubsequence(result.errors, pooled)
            /\ IsSubsequence(result.warnings, pooled)

WitC1 ==
    /\ Returned
    /\ ~result.valid
    /\ Len(result.errors) >= 2
    /\ Len(result.warnings) >= 2

WitC1ValidWithWarnings ==
    /\ Returned
    /\ result.valid
    /\ Len(result.warnings) >= 1

\* an entry that is the placeholder sentinel or the 'unspecified' marker
IsPlaceholderSource(s) == s = Placeholder \/ s = Unspecified

\* C2 (as claimed): NO_DATA_SOURCES is emitted exactly when dataSources is empty
\* or every entry is the placeholder sentinel or the 'unspecified' marker.
CexC2 ==
    Returned =>
        ( Len(OfType(result.errors, "NO_DATA_SOURCES")) > 0
          <=> \/ Len(table.dataSources) = 0
              \/ \A i \in 1..Len(table.dataSources) :
                     IsPlaceholderSource(table.dataSources[i]) )

\* C3 (as claimed): validate never throws for an input whose attributes have
\* the declared types, a table name without a dot included.
CexC3 == result.outcome # "threw"

\* the names that occur more than once in a list of names
RepeatedNames(names) ==
    {names[i] : i \in {k \in 1..Len(names) : \E j \in 1..Len(names) : j # k /\ names[j] = names[k]}}

\* the position of the second occurrence of a repeated name
SecondOccurrence(names, n) ==
    CHOOSE i \in 1..Len(names) :
        /\ names[i] = n
        /\ Cardinality({j \in 1..(i - 1) : names[j] = n}) = 1

FieldNamesOf(t) == [i \in 1..Len(t.fields) |-> t.fields[i].name]

\* C4: exactly one DUPLICATE_FIELD_NAMES error when some field name occurs more
\* than once and none when all names are distinct; its message lists each
\* duplicated name exactly once, in the order of the second occurrences.
ThmC4 ==
    Returned =>
        LET names == FieldNamesOf(table)
            dups == OfType(result.errors, "DUPLICATE_FIELD_NAMES")
            listed == dups[1].message.args
        IN  /\ OfType(result.warnings, "DUPLICATE_FIELD_NAMES") = <<>>
            /\ RepeatedNames(names) = {} => Len(dups) = 0
            /\ RepeatedNames(names) # {} =>
                  /\ Len(dups) = 1
                  /\ {listed[i] : i \in 1..Len(listed)} = RepeatedNames(names)
                  /\ Len(listed) = Cardinality(RepeatedNames(names))
                  /\ \A i, j \in 1..Len(listed) :
                        i < j => SecondOccurrence(names, listed[i])
                                   < SecondOccurrence(names, listed[j])

\* two names are duplicated, one of them three times over
WitC4 ==
    /\ Returned
    /\ Len(table.fields) >= 4
    /\ Cardinality(RepeatedNames(FieldNamesOf(table))) = 2
    /\ Len(OfType(result.errors, "DUPLICATE_FIELD_NAMES")) = 1
    /\ Len(OfType(result.errors, "DUPLICATE_FIELD_NAMES")[1].message.args) = 2

\* kind, path and severity of each finding of a list
Signature(findings) ==
    [i \in 1..Len(findings) |->
        <<findings[i].type, findings[i].path, findings[i].severity>>]

\* the table that differs from t only in its owner, the placeholder sentinel
WithPlaceholderOwner(t) == [t EXCEPT !.owner = Placeholder]

\* C5 (as claimed): a table with owner '' and the same table with owner
\* '[qing tian xie]' both get NO_OWNER and the same findings.
CexC5 ==
    (Returned /\ table.owner = <<>>) =>
        LET twin == validate(WithPlaceholderOwner(table))
        IN  /\ Len(OfType(result.errors, "NO_OWNER")) = 1
            /\ Len(OfType(twin.errors, "NO_OWNER")) = 1
            /\ Signature(twin.errors) = Signature(result.errors)
            /\ Signature(twin.warnings) = Signature(result.warnings)

IsOwnerSchemaError(e) == e.type = "SCHEMA_ERROR" /\ e.path = <<"owner">>

\* C5 (amended): both tables get exactly one NO_OWNER error and are invalid, and
\* their findings are the same except that the table with the empty owner has
\* one more error, the SCHEMA_ERROR with path 'owner'.
ThmC5 ==
    (result # NotRun /\ table.owner = <<>>) =>
        LET twin == validate(WithPlaceholderOwner(table))
        IN  /\ twin.outcome = result.outcome
            /\ Returned =>
                 /\ Len(OfType(result.errors, "NO_OWNER")) = 1
                 /\ Len(OfType(twin.errors, "NO_OWNER")) = 1
                 /\ ~result.valid /\ ~twin.valid
                 /\ Len(SelectSeq(result.errors, IsOwnerSchemaError)) = 1
                 /\ Signature(twin.errors)
                      = Signature(SelectSeq(result.errors, LAMBDA e : ~IsOwnerSchemaError(e)))
                 /\ Signature(twin.warnings) = Signature(result.warnings)

WitC5 ==
    /\ Returned
    /\ table.owner = <<>>
    /\ Len(OfType(result.errors, "NO_OWNER")) = 1
    /\ Len(result.warnings) >= 1

\* the attributes of t other than the owner are as C6 requires
WellFormedButOwner(t) ==
    /\ MatchesTableName(t.name)
    /\ Len(t.displayName) >= 1
    /\ Len(t.description) >= MinDescriptionLen
    /\ t.updateFrequency \in UpdateFrequencies
    /\ Len(t.fields) >= 1
    /\ \A i, j \in 1..Len(t.fields) : i # j => t.fields[i].name # t.fields[j].name
    /\ \A i \in 1..Len(t.fields) :
          /\ MatchesFieldName(t.fields[i].name)
          /\ Len(t.fields[i].type) >= 1
          /\ Len(t.fields[i].description) >= 1
    /\ Len(t.dataSources) >= 1
    /\ \A i \in 1..Len(t.dataSources) :
          /\ ~Includes(t.dataSources[i], Placeholder)
          /\ t.dataSources[i] # Unspecified

L(text) == <<text>>

\* the back quote character of the MySQL texts
BackQuote == <<"backquote">>

LowerLetters == <<"a","b","c","d","e","f","g","h","i","j","k","l","m",
                  "n","o","p","q","r","s","t","u","v","w","x","y","z">>
UpperLetters == <<"A","B","C","D","E","F","G","H","I","J","K","L","M",
                  "N","O","P","Q","R","S","T","U","V","W","X","Y","Z">>

\* String.prototype.toUpperCase
ToUpperCase(s) ==
    [i \in 1..Len(s) |->
        IF s[i] \in LowerCase THEN UpperLetters[IndexOf(LowerLetters, s[i])] ELSE s[i]]

TypeBIGINT == <<"B","I","G","I","N","T">>
TypeDECIMAL == <<"D","E","C","I","M","A","L">>
TypeDATE == <<"D","A","T","E">>
TypeTIMESTAMP == <<"T","I","M","E","S","T","A","M","P">>
TypeBOOLEAN == <<"B","O","O","L","E","A","N">>
TypeDOUBLE == <<"D","O","U","B","L","E">>
TypeFLOAT == <<"F","L","O","A","T">>
TypeARRAY == <<"A","R","R","A","Y">>
TypeMAP == <<"M","A","P">>
TypeSTRUCT == <<"S","T","R","U","C","T">>

\* typeMap[key] || fallback, typeMap a list of <<key, value>> entries
Lookup(typeMap, key, fallback) ==
    IF \E i \in 1..Len(typeMap) : typeMap[i][1] = key
    THEN typeMap[CHOOSE i \in 1..Len(typeMap) : typeMap[i][1] = key][2]
    ELSE fallback

\* HiveTypeMap with DATE kept as DATE
HiveTypeMapDateAsDate ==
    << <<TypeSTRING, L("STRING")>>, <<TypeINT, L("INT")>>, <<TypeBIGINT, L("BIGINT")>>,
       <<TypeDECIMAL, L("DECIMAL(18,2)")>>, <<TypeDATE, L("DATE")>>,
       <<TypeTIMESTAMP, L("TIMESTAMP")>>, <<TypeBOOLEAN, L("BOOLEAN")>>,
       <<TypeDOUBLE, L("DOUBLE")>>, <<TypeFLOAT, L("FLOAT")>> >>

HiveTypeMap ==
    << <<TypeSTRING, L("STRING")>>, <<TypeINT, L("INT")>>, <<TypeBIGINT, L("BIGINT")>>,
       <<TypeDECIMAL, L("DECIMAL(18,2)")>>, <<TypeDATE, L("STRING")>>,
       <<TypeTIMESTAMP, L("TIMESTAMP")>>, <<TypeBOOLEAN, L("BOOLEAN")>>,
       <<TypeDOUBLE, L("DOUBLE")>>, <<TypeFLOAT, L("FLOAT")>> >>

MySQLTypeMap ==
    << <<TypeSTRING, L("VARCHAR(255)")>>, <<TypeINT, L("INT")>>, <<TypeBIGINT, L("BIGINT")>>,
       <<TypeDECIMAL, L("DECIMAL(18,2)")>>, <<TypeDATE, L("DATE")>>,
       <<TypeTIMESTAMP, L("DATETIME")>>, <<TypeBOOLEAN, L("TINYINT(1)")>>,
       <<TypeDOUBLE, L("DOUBLE")>>, <<TypeFLOAT, L("FLOAT")>> >>

MaxComputeTypeMap ==
    << <<TypeSTRING, L("STRING")>>, <<TypeINT, L("BIGINT")>>, <<TypeBIGINT, L("BIGINT")>>,
       <<TypeDECIMAL, L("DECIMAL(18,2)")>>, <<TypeDATE, L("STRING")>>,
       <<TypeTIMESTAMP, L("DATETIME")>>, <<TypeBOOLEAN, L("BOOLEAN")>>,
       <<TypeDOUBLE, L("DOUBLE")>>, <<TypeFLOAT, L("DOUBLE")>>,
       <<TypeARRAY, L("ARRAY<STRING>")>>, <<TypeMAP, L("MAP<STRING, STRING>")>>,
       <<TypeSTRUCT, L("STRUCT<field1:STRING>")>> >>

\* mapTypeToHive without toUpperCase
mapTypeToHiveCaseSensitive(type) == Lookup(HiveTypeMap, type, L("STRING"))

mapTypeToHive(type) == Lookup(HiveTypeMap, ToUpperCase(type), L("STRING"))

mapTypeToMySQL(type) == Lookup(MySQLTypeMap, ToUpperCase(type), L("VARCHAR(255)"))

mapTypeToMaxCompute(type) == Lookup(MaxComputeTypeMap, ToUpperCase(type), L("STRING"))

\* IncludeComments that needs includeComments: true
IncludeCommentsOnlyWhenTrue(options) == options.includeComments = Some(TRUE)

\* options.includeComments !== false
IncludeComments(options) == options.includeComments # Some(FALSE)

\* table.partitionKeys || []
PartitionKeysOf(t) == IF t.partitionKeys = Undefined THEN <<>> ELSE t.partitionKeys[1]

\* Array.includes
Contains(seq, x) == \E i \in 1..Len(seq) : seq[i] = x

\* HasDtPartition for any partition key
HasDtPartitionAnyKey(t) == t.partitionKeys # Undefined /\ Len(t.partitionKeys[1]) > 0

\* table.partitionKeys && table.partitionKeys.includes('dt')
HasDtPartition(t) == t.partitionKeys # Undefined /\ Contains(t.partitionKeys[1], <<"d", "t">>)

\* RegularFields without the filter
RegularFieldsUnfiltered(t) == t.fields

\* table.fields.filter(f => !partitionKeys.includes(f.name))
RegularFields(t) == SelectSeq(t.fields, LAMBDA f : ~Contains(PartitionKeysOf(t), f.name))

\* a lookup that finds no field
FindFieldNone(t, key) == Undefined

\* table.fields.find(f => f.name === key): <<>> when there is none
FindField(t, key) ==
    IF \E i \in 1..Len(t.fields) : t.fields[i].name = key
    THEN Some(t.fields[CHOOSE i \in 1..Len(t.fields) :
                  t.fields[i].name = key /\ \A j \in 1..(i - 1) : t.fields[j].name # key])
    ELSE Undefined

\* ',\n' after every line of a list but the last, '\n' after the last
Separator(index, length) == IF index < length THEN <<L(",")>> ELSE <<>>

\* ReplaceFirstDot that keeps the dot
ReplaceFirstDotKeepsDot(s) == s

\* table.name.replace('.', '_'): the first dot only
ReplaceFirstDot(s) ==
    IF \E i \in 1..Len(s) : s[i] = "."
    THEN [i \in 1..Len(s) |-> IF i = IndexOf(s, ".") THEN "_" ELSE s[i]]
    ELSE s

\* the comment header of a DDL / ETL text, closed by an empty line
Header(title, t, withDisplayName, currentDate) ==
       << <<L(title)>>, <<L("-- table: "), t.name>> >>
    \o (IF withDisplayName THEN << <<L("-- display name: "), t.displayName>> >> ELSE <<>>)
    \o << <<L("-- owner: "), t.owner>>, <<L("-- generated: "), currentDate>>, <<>> >>

\* the line of one column of a Hive / MaxCompute column block
ColumnLine(field, mapped, withComments, index, length) ==
       <<L("    "), field.name, L(" "), mapped>>
    \o (IF withComments /\ field.description # <<>>
          THEN <<L(" COMMENT '"), field.description, L("'")>> ELSE <<>>)
    \o Separator(index, length)

generateHiveDDL(t, options, currentDate) ==
    LET includeComments == IncludeComments(options)
        partitionKeys == PartitionKeysOf(t)
        regularFields == RegularFields(t)
        keyLine(index) ==
            LET field == FindField(t, partitionKeys[index])
                type == IF field # Undefined THEN mapTypeToHive(field[1].type) ELSE L("STRING")
            IN  <<L("    "), partitionKeys[index], L(" "), type>>
                  \o Separator(index, Len(partitionKeys))
    IN     (IF includeComments THEN Header("-- Hive DDL", t, TRUE, currentDate) ELSE <<>>)
        \o << <<L("CREATE TABLE IF NOT EXISTS "), t.name, L(" (")>> >>
        \o [i \in 1..Len(regularFields) |->
               ColumnLine(regularFields[i], mapTypeToHive(regularFields[i].type),
                          includeComments, i, Len(regularFields))]
        \o << <<L(")")>> >>
        \o (IF includeComments /\ t.displayName # <<>>
              THEN << <<L("COMMENT '"), t.displayName, L("'")>> >> ELSE <<>>)
        \o (IF Len(partitionKeys) > 0
              THEN << <<L("PARTITIONED BY (")>> >>
                   \o [i \in 1..Len(partitionKeys) |-> keyLine(i)]
                   \o << <<L(")")>> >>
              ELSE <<>>)
        \o << <<L("STORED AS PARQUET")>>,
              <<L("TBLPROPERTIES (")>>,
              <<L("    'owner' = '"), t.owner, L("',")>>,
              <<L("    'created_date' = '"), currentDate, L("'")>>,
              <<L(");")>> >>

\* the SELECT list and the NULL mappings shared by the Hive and MaxCompute ETL
SelectLines(regularFields, includeComments) ==
    [i \in 1..Len(regularFields) |->
        (IF includeComments /\ regularFields[i].description # <<>>
           THEN <<L("    "), regularFields[i].name, L("  -- "), regularFields[i].description>>
           ELSE <<L("    "), regularFields[i].name>>)
        \o Separator(i, Len(regularFields))]

NullLines(regularFields, todo) ==
    [i \in 1..Len(regularFields) |->
        <<L("        NULL AS "), regularFields[i].name, L(todo)>>
        \o Separator(i, Len(regularFields))]

\* FirstSource that never reads dataSources
FirstSourceAlwaysDefault(t) == L("source_table")

\* table.dataSources[0] || 'source_table'
FirstSource(t) ==
    IF Len(t.dataSources) > 0 /\ t.dataSources[1] # <<>>
    THEN t.dataSources[1] ELSE L("source_table")

generateHiveETL(t, options, currentDate) ==
    LET includeComments == IncludeComments(options)
        regularFields == RegularFields(t)
    IN     (IF includeComments THEN Header("-- Hive ETL", t, TRUE, currentDate) ELSE <<>>)
        \o << <<L("INSERT OVERWRITE TABLE "), t.name>> >>
        \o (IF HasDtPartition(t) THEN << <<L("PARTITION (dt = '${bizdate}')")>> >> ELSE <<>>)
        \o << <<L("SELECT")>> >>
        \o SelectLines(regularFields, includeComments)
        \o << <<L("FROM (")>>, <<L("    SELECT")>> >>
        \o NullLines(regularFields, "  -- TODO: fill in the field logic")
        \o << <<L("    FROM "), FirstSource(t)>> >>
        \o (IF HasDtPartition(t) THEN << <<L("    WHERE dt = '${bizdate}'")>> >> ELSE <<>>)
        \o << <<L(") t;")>> >>

\* MySQLColumns with the partition keys left out
MySQLColumnsRegularOnly(t) == RegularFields(t)

\* the fields generateMySQLDDL renders: table.fields.forEach
MySQLColumns(t) == t.fields

generateMySQLDDL(t, options, currentDate) ==
    LET includeComments == IncludeComments(options)
        tableName == ReplaceFirstDot(t.name)
        fields == MySQLColumns(t)
        column(i) ==
               <<L("    "), BackQuote, fields[i].name, BackQuote, L(" "),
                 mapTypeToMySQL(fields[i].type)>>
            \o (IF ~fields[i].nullable THEN <<L(" NOT NULL")>> ELSE <<>>)
            \o (IF includeComments /\ fields[i].description # <<>>
                  THEN <<L(" COMMENT '"), fields[i].description, L("'")>> ELSE <<>>)
            \o Separator(i, Len(fields))
    IN     (IF includeComments THEN Header("-- MySQL DDL", t, FALSE, currentDate) ELSE <<>>)
        \o << <<L("CREATE TABLE IF NOT EXISTS "), BackQuote, tableName, BackQuote, L(" (")>> >>
        \o [i \in 1..Len(fields) |-> column(i)]
        \o << <<L(") ENGINE=InnoDB DEFAULT CHARSET=utf8mb4")>>
                 \o (IF includeComments /\ t.displayName # <<>>
                       THEN <<L(" COMMENT='"), t.displayName, L("'")>> ELSE <<>>)
                 \o <<L(";")>> >>

generateMySQLETL(t, options, currentDate) ==
    << <<L("-- MySQL ETL")>>,
       <<L("-- TODO: implement the MySQL ETL logic")>>,
       <<>>,
       <<L("INSERT INTO "), BackQuote, ReplaceFirstDot(t.name), BackQuote,
         L(" VALUES (...);")>> >>

generateClickHouseDDL(t, options, currentDate) ==
    << <<L("-- ClickHouse DDL")>>,
       <<L("-- TODO: implement the ClickHouse DDL")>>,
       <<>>,
       <<L("CREATE TABLE IF NOT EXISTS "), ReplaceFirstDot(t.name),
         L(" (...) ENGINE = MergeTree();")>> >>

generateClickHouseETL(t, options, currentDate) ==
    << <<L("-- ClickHouse ETL")>>,
       <<L("-- TODO: implement the ClickHouse ETL logic")>>,
       <<>>,
       <<L("INSERT INTO "), ReplaceFirstDot(t.name), L(" VALUES (...);")>> >>

\* Array.join(',')
RECURSIVE JoinComma(_)
JoinComma(seq) ==
    IF seq = <<>> THEN <<>>
    ELSE IF Len(seq) = 1 THEN seq[1]
    ELSE seq[1] \o <<",">> \o JoinComma(Tail(seq))

generateMaxComputeDDL(t, options, currentDate) ==
    LET includeComments == IncludeComments(options)
        partitionKeys == PartitionKeysOf(t)
        regularFields == RegularFields(t)
        keyLine(index) ==
            LET field == FindField(t, partitionKeys[index])
                type == IF field # Undefined THEN mapTypeToMaxCompute(field[1].type)
                                             ELSE L("STRING")
            IN     <<L("    "), partitionKeys[index], L(" "), type>>
                \o (IF includeComments /\ field # Undefined /\ field[1].description # <<>>
                      THEN <<L(" COMMENT '"), field[1].description, L("'")>> ELSE <<>>)
                \o Separator(index, Len(partitionKeys))
    IN     (IF includeComments THEN Header("-- MaxCompute DDL", t, TRUE, currentDate) ELSE <<>>)
        \o << <<L("CREATE TABLE IF NOT EXISTS "), t.name, L(" (")>> >>
        \o [i \in 1..Len(regularFields) |->
               ColumnLine(regularFields[i], mapTypeToMaxCompute(regularFields[i].type),
                          includeComments, i, Len(regularFields))]
        \o << <<L(")")>> >>
        \o (IF includeComments /\ t.displayName # <<>>
              THEN << <<L("COMMENT '"), t.displayName, L("'")>> >> ELSE <<>>)
        \o (IF Len(partitionKeys) > 0
              THEN << <<L("PARTITIONED BY (")>> >>
                   \o [i \in 1..Len(partitionKeys) |-> keyLine(i)]
                   \o << <<L(")")>> >>
              ELSE <<>>)
        \o << <<L("LIFECYCLE 365")>>,
              <<L("TBLPROPERTIES (")>>,
              <<L("    'owner' = '"), t.owner, L("',")>>,
              <<L("    'created_date' = '"), currentDate, L("',")>>,
              <<L("    'update_frequency' = '"),
                L(IF t.updateFrequency = "" THEN "daily" ELSE t.updateFrequency), L("',")>>,
              <<L("    'data_source' = '"), JoinComma(t.dataSources), L("'")>>,
              <<L(");")>> >>

generateMaxComputeETL(t, options, currentDate) ==
    LET includeComments == IncludeComments(options)
        partitionKeys == PartitionKeysOf(t)
        regularFields == RegularFields(t)
        hasDt == Contains(partitionKeys, <<"d", "t">>)
    IN     (IF includeComments THEN Header("-- MaxCompute ETL", t, TRUE, currentDate) ELSE <<>>)
        \o << <<L("INSERT OVERWRITE TABLE "), t.name>> >>
        \o (IF HasDtPartition(t) THEN << <<L("PARTITION (dt = '${bizdate}')")>> >> ELSE <<>>)
        \o << <<L("SELECT")>> >>
        \o SelectLines(regularFields, includeComments)
        \o << <<L("FROM (")>>, <<L("    SELECT")>> >>
        \o NullLines(regularFields, "  -- TODO: fill in the field conversion logic")
        \o (IF hasDt THEN << <<L("        ,'${bizdate}' AS dt")>> >> ELSE <<>>)
        \o << <<L("    FROM "), FirstSource(t)>> >>
        \o (IF hasDt THEN << <<L("    WHERE dt = '${bizdate}'")>> >> ELSE <<>>)
        \o << <<L(") t;")>> >>
        \o (IF includeComments
              THEN << <<>>,
                      <<L("-- MaxCompute best practices:")>>,
                      <<L("-- 1. use partitioned tables to scan less data")>>,
                      <<L("-- 2. set a lifecycle to manage cost")>>,
                      <<L("-- 3. use INSERT OVERWRITE, not INSERT INTO")>>,
                      <<L("-- 4. use dynamic partitions for large tables")>> >>
              ELSE <<>>)

SupportedDialects == {"hive", "mysql", "clickhouse", "maxcompute"}

\* EffectiveDialect that ignores the options
EffectiveDialectDefaultOnly(options, default) == default

\* options.dialect || this.dialect
EffectiveDialect(options, default) ==
    IF options.dialect # Undefined /\ options.dialect[1] # ""
    THEN options.dialect[1] ELSE default

NoError == [text |-> "", args |-> <<>>]

\* a call that returned its text
Text(lines) == [outcome |-> "returned", text |-> lines, error |-> NoError]

\* throw new Error(`unsupported SQL dialect: ${dialect}`)
UnsupportedDialect(d) ==
    [outcome |-> "threw", text |-> <<>>,
     error |-> [text |-> "unsupported SQL dialect: ", args |-> <<d>>]]

generateDDL(default, t, options, currentDate) ==
    LET d == EffectiveDialect(options, default)
    IN  CASE d = "hive"       -> Text(generateHiveDDL(t, options, currentDate))
          [] d = "mysql"      -> Text(generateMySQLDDL(t, options, currentDate))
          [] d = "clickhouse" -> Text(generateClickHouseDDL(t, options, currentDate))
          [] d = "maxcompute" -> Text(generateMaxComputeDDL(t, options, currentDate))
          [] OTHER            -> UnsupportedDialect(d)

generateETL(default, t, options, currentDate) ==
    LET d == EffectiveDialect(options, default)
    IN  CASE d = "hive"       -> Text(generateHiveETL(t, options, currentDate))
          [] d = "mysql"      -> Text(generateMySQLETL(t, options, currentDate))
          [] d = "clickhouse" -> Text(generateClickHouseETL(t, options, currentDate))
          [] d = "maxcompute" -> Text(generateMaxComputeETL(t, options, currentDate))
          [] OTHER            -> UnsupportedDialect(d)

\* every field counted as required
RequiredFieldsAll(t) == t.fields

\* table.fields.filter(f => !f.nullable)
RequiredFields(t) == SelectSeq(t.fields, LAMBDA f : ~f.nullable)

generateCheckSQL(t, currentDate) ==
    LET requiredFields == RequiredFields(t)
        where == IF HasDtPartition(t)
                 THEN << <<L("WHERE dt = '${bizdate}';")>>, <<>> >>
                 ELSE << <<L(";")>>, <<>> >>
        nullCount(i) ==
            <<L("    SUM(CASE WHEN "), requiredFields[i].name,
              L(" IS NULL THEN 1 ELSE 0 END) AS "), requiredFields[i].name,
              L("_null_count")>> \o Separator(i, Len(requiredFields))
    IN     << <<L("-- data check SQL")>>,
              <<L("-- table: "), t.name>>,
              <<L("-- owner: "), t.owner>>,
              <<L("-- generated: "), currentDate>>,
              <<>>,
              <<L("-- 1. row count check")>>,
              <<L("SELECT")>>,
              <<L("    '"), t.name, L("' AS table_name,")>>,
              <<L("    '${bizdate}' AS dt,")>>,
              <<L("    COUNT(*) AS row_count,")>>,
              <<L("    CASE")>>,
              <<L("        WHEN COUNT(*) = 0 THEN 'CRITICAL'")>>,
              <<L("        WHEN COUNT(*) < 100 THEN 'WARNING'")>>,
              <<L("        ELSE 'OK'")>>,
              <<L("    END AS status")>>,
              <<L("FROM "), t.name>> >>
        \o where
        \o (IF Len(requiredFields) > 0
              THEN << <<L("-- 2. non-null check of the key fields")>>,
                      <<L("SELECT")>>,
                      <<L("    '"), t.name, L("' AS table_name,")>>,
                      <<L("    '${bizdate}' AS dt,")>> >>
                   \o [i \in 1..Len(requiredFields) |-> nullCount(i)]
                   \o << <<L("FROM "), t.name>> >>
                   \o where
              ELSE <<>>)
        \o << <<L("-- 3. duplicate check")>>,
              <<L("-- TODO: check duplicates on the business key")>>,
              <<>> >>
        \o (IF HasDtPartition(t)
              THEN << <<L("-- 4. day-over-day row count fluctuation check")>>,
                      <<L("WITH today_count AS (")>>,
                      <<L("    SELECT COUNT(*) AS cnt")>>,
                      <<L("    FROM "), t.name>>,
                      <<L("    WHERE dt = '${bizdate}'")>>,
                      <<L("),")>>,
                      <<L("yesterday_count AS (")>>,
                      <<L("    SELECT COUNT(*) AS cnt")>>,
                      <<L("    FROM "), t.name>>,
                      <<L("    WHERE dt = DATE_SUB('${bizdate}', 1)")>>,
                      <<L(")")>>,
                      <<L("SELECT")>>,
                      <<L("    '"), t.name, L("' AS table_name,")>>,
                      <<L("    '${bizdate}' AS dt,")>>,
                      <<L("    t.cnt AS today_count,")>>,
                      <<L("    y.cnt AS yesterday_count,")>>,
                      <<L("    ROUND((t.cnt - y.cnt) * 100.0 / y.cnt, 2) AS change_percent,")>>,
                      <<L("    CASE")>>,
                      <<L("        WHEN ABS((t.cnt - y.cnt) * 100.0 / y.cnt) > 50 THEN 'CRITICAL'")>>,
                      <<L("        WHEN ABS((t.cnt - y.cnt) * 100.0 / y.cnt) > 20 THEN 'WARNING'")>>,
                      <<L("        ELSE 'OK'")>>,
                      <<L("    END AS status")>>,
                      <<L("FROM today_count t, yesterday_count y;")>> >>
              ELSE <<>>)

(***************************************************************************)
(* Inputs of the generator.                                                *)
(***************************************************************************)
NameDt == <<"d", "t">>
NameId == <<"i", "d">>

GenId == [name |-> NameId, type |-> TypeSTRING,
          description |-> <<"ding", "dan">>, nullable |-> FALSE]
GenAmount == [name |-> <<"a", "m", "t">>, type |-> <<"d","e","c","i","m","a","l">>,
              description |-> <<>>, nullable |-> TRUE]
GenDt == [name |-> NameDt, type |-> TypeDATE,
          description |-> <<"ri", "qi">>, nullable |-> FALSE]

GenFieldPool == {GenId, GenAmount, GenDt}
KeyPool == {NameDt, NameId}

LogicalTypes == {TypeSTRING, TypeINT, TypeBIGINT, TypeDECIMAL, TypeDATE, TypeTIMESTAMP,
                 TypeBOOLEAN, TypeDOUBLE, TypeFLOAT}

TypeTokens ==
    LogicalTypes \cup
    {<<"i","n","t">>, <<"D","e","c","i","m","a","l">>, <<"f","l","o","a","t">>,
     <<"F","O","O">>, <<"v","a","r","c","h","a","r">>,
     TypeARRAY, <<"a","r","r","a","y">>, TypeMAP, TypeSTRUCT}

\* field lists and partition key lists within the bounds, with no, one or two
\* data sources
ShapeTables ==
    {[BaseTable EXCEPT !.fields = fs, !.partitionKeys = pk, !.dataSources = ds] :
        fs \in SeqsUpTo(GenFieldPool, MaxGenFields),
        pk \in {Undefined} \cup {Some(ks) : ks \in SeqsUpTo(KeyPool, MaxKeys)},
        ds \in {<<>>, <<OdsOrders, Unspecified>>}}

\* one column of each type token, as a regular column or as the partition key
TypeTables ==
    {[BaseTable EXCEPT !.fields = <<[name |-> <<"c">>, type |-> ty,
                                    description |-> <<"c">>, nullable |-> TRUE]>>,
                       !.partitionKeys = pk] :
        ty \in TypeTokens, pk \in {Undefined, Some(<< <<"c">> >>)}}

GeneratorTables == ShapeTables \cup TypeTables

ConstructorDialects == SupportedDialects \cup {"oracle"}

GenerateOptions ==
    [dialect : {Undefined} \cup {Some(d) : d \in SupportedDialects \cup {"oracle", ""}},
     includeComments : {Undefined, Some(TRUE), Some(FALSE)}]

\* new Date().toISOString().split('T')[0] on the day of the call
Dates == {<<"2025-01-01">>, <<"2025-01-02">>}

\* a finished call: what was called, with which arguments, and what came of it
Call(op, options, date, r) ==
    [op |-> op, options |-> options, date |-> date,
     outcome |-> r.outcome, text |-> r.text, error |-> r.error]

NoOptions == [dialect |-> Undefined, includeComments |-> Undefined]

(***************************************************************************)
(* The generator as a state machine: new SQLGenerator(dialect), then one   *)
(* call on it for one table (the generator keeps nothing between calls).   *)
(***************************************************************************)
InitGenerator ==
    /\ table \in GeneratorTables
    /\ dialect \in ConstructorDialects
    /\ result = NotRun
    /\ sql = NotRun
    /\ ParserIdle
    /\ CommandIdle
    /\ RegistryIdle

GenerateDDL ==
    \E options \in GenerateOptions, date \in Dates :
        /\ sql = NotRun
        /\ sql' = Call("generateDDL", options, date,
                       generateDDL(dialect, table, options, date))
        /\ UNCHANGED <<table, result, dialect, parserVars, commandVars, registryVars>>

GenerateETL ==
    \E options \in GenerateOptions, date \in Dates :
        /\ sql = NotRun
        /\ sql' = Call("generateETL", options, date,
                       generateETL(dialect, table, options, date))
        /\ UNCHANGED <<table, result, dialect, parserVars, commandVars, registryVars>>

GenerateCheckSQL ==
    \E date \in Dates :
        /\ sql = NotRun
        /\ sql' = Call("generateCheckSQL", NoOptions, date,
                       Text(generateCheckSQL(table, date)))
        /\ UNCHANGED <<table, result, dialect, parserVars, commandVars, registryVars>>

NextGenerator == GenerateDDL \/ GenerateETL \/ GenerateCheckSQL

SpecGenerator == InitGenerator /\ [][NextGenerator]_vars

(***************************************************************************)
(* Claims about the generator (checked under SpecGenerator).               *)
(***************************************************************************)
\* the dialect the last call was made for: options.dialect when it is given
\* (present and not the empty string), the constructor's default otherwise
CalledDialect ==
    IF sql.options.dialect = Undefined THEN dialect
    ELSE IF sql.options.dialect[1] = "" THEN dialect
    ELSE sql.options.dialect[1]

CalledDDL == sql # NotRun /\ sql.op = "generateDDL"
CalledETL == sql # NotRun /\ sql.op = "generateETL"

\* C7: generateDDL and generateETL raise an error naming the dialect, and return
\* no text, whenever the effective dialect is not one of hive, mysql, clickhouse,
\* maxcompute; for each of these four they return text without raising.
ThmC7 ==
    (CalledDDL \/ CalledETL) =>
        /\ CalledDialect \notin {"hive", "mysql", "clickhouse", "maxcompute"} =>
              /\ sql.outcome = "threw"
              /\ sql.text = <<>>
              /\ sql.error.args = <<CalledDialect>>
        /\ CalledDialect \in {"hive", "mysql", "clickhouse", "maxcompute"} =>
              /\ sql.outcome = "returned"
              /\ sql.text # <<>>
              /\ sql.error = NoError

\* generateETL on a hive generator, called with dialect 'oracle'
WitC7 ==
    /\ CalledETL
    /\ dialect = "hive"
    /\ sql.options.dialect = Some("oracle")
    /\ sql.outcome = "threw"
    /\ sql.error.args = <<"oracle">>

StartsWith(line, text) == Len(line) >= 1 /\ line[1] = L(text)

\* the position of the first line after position from that starts with one of
\* the texts; 0 when there is none
FirstLine(lines, from, texts) ==
    IF \E i \in (from + 1)..Len(lines) : \E x \in texts : StartsWith(lines[i], x)
    THEN CHOOSE i \in (from + 1)..Len(lines) :
             /\ \E x \in texts : StartsWith(lines[i], x)
             /\ \A j \in (from + 1)..(i - 1) : \A x \in texts : ~StartsWith(lines[j], x)
    ELSE 0

\* the lines between the opening line of a clause and the line that closes it
Block(lines, opening) ==
    LET open == FirstLine(lines, 0, {opening})
        close == FirstLine(lines, open, {")", ") ENGINE=InnoDB DEFAULT CHARSET=utf8mb4"})
    IN  IF open = 0 THEN <<>> ELSE SubSeq(lines, open + 1, close - 1)

\* the main column block of a DDL text and its PARTITIONED BY clause
ColumnBlock(lines) == Block(lines, "CREATE TABLE IF NOT EXISTS ")
PartitionClause(lines) == Block(lines, "PARTITIONED BY (")
HasPartitionClause(lines) == FirstLine(lines, 0, {"PARTITIONED BY ("}) # 0

\* name and type of the column a line of a block declares (MySQL quotes the name)
ColumnName(line, d) == IF d = "mysql" THEN line[3] ELSE line[2]
ColumnType(line, d) == IF d = "mysql" THEN line[6] ELSE line[4]

\* the type mapping table of the specification
SpecTypeTable(d) ==
    CASE d = "hive" ->
           << <<TypeSTRING, L("STRING")>>, <<TypeINT, L("INT")>>,
              <<TypeBIGINT, L("BIGINT")>>, <<TypeDECIMAL, L("DECIMAL(18,2)")>>,
              <<TypeDATE, L("STRING")>>, <<TypeTIMESTAMP, L("TIMESTAMP")>>,
              <<TypeBOOLEAN, L("BOOLEAN")>>, <<TypeDOUBLE, L("DOUBLE")>>,
              <<TypeFLOAT, L("FLOAT")>> >>
      [] d = "mysql" ->
           << <<TypeSTRING, L("VARCHAR(255)")>>, <<TypeINT, L("INT")>>,
              <<TypeBIGINT, L("BIGINT")>>, <<TypeDECIMAL, L("DECIMAL(18,2)")>>,
              <<TypeDATE, L("DATE")>>, <<TypeTIMESTAMP, L("DATETIME")>>,
              <<TypeBOOLEAN, L("TINYINT(1)")>>, <<TypeDOUBLE, L("DOUBLE")>>,
              <<TypeFLOAT, L("FLOAT")>> >>
      [] d = "maxcompute" ->
           << <<TypeSTRING, L("STRING")>>, <<TypeINT, L("BIGINT")>>,
              <<TypeBIGINT, L("BIGINT")>>, <<TypeDECIMAL, L("DECIMAL(18,2)")>>,
              <<TypeDATE, L("STRING")>>, <<TypeTIMESTAMP, L("DATETIME")>>,
              <<TypeBOOLEAN, L("BOOLEAN")>>, <<TypeDOUBLE, L("DOUBLE")>>,
              <<TypeFLOAT, L("DOUBLE")>> >>

SpecDefaultType(d) == IF d = "mysql" THEN L("VARCHAR(255)") ELSE L("STRING")

\* the table entry of a logical type
SpecType(d, type) ==
    SpecTypeTable(d)[CHOOSE i \in 1..Len(SpecTypeTable(d)) : SpecTypeTable(d)[i][1] = type][2]

\* a DDL text was returned for one of the three dialects that render columns
RenderedDDL ==
    /\ CalledDDL
    /\ sql.outcome = "returned"
    /\ CalledDialect \in {"hive", "mysql", "maxcompute"}

\* the fields that a dialect renders in its main column block
Rendered(f) ==
    \/ CalledDialect = "mysql"
    \/ table.partitionKeys = Undefined
    \/ \A i \in 1..Len(table.partitionKeys[1]) : table.partitionKeys[1][i] # f.name

FieldsOf(t) == {t.fields[i] : i \in 1..Len(t.fields)}

\* every rendered field has a line in the column block, and every line that
\* names the field carries the type Expected(dialect, field type)
ColumnTypesAre(Expected(_, _), Selected(_)) ==
    LET block == ColumnBlock(sql.text)
    IN  \A f \in {g \in FieldsOf(table) : Rendered(g) /\ Selected(g)} :
            /\ \E i \in 1..Len(block) : ColumnName(block[i], CalledDialect) = f.name
            /\ \A i \in 1..Len(block) :
                  ColumnName(block[i], CalledDialect) = f.name =>
                      ColumnType(block[i], CalledDialect) = Expected(CalledDialect, f.type)

\* C8: for each of the nine logical types the type generateDDL renders for a
\* column is the entry of the specification's mapping table, for Hive, MySQL and
\* MaxCompute.
ThmC8 ==
    RenderedDDL => ColumnTypesAre(SpecType, LAMBDA f : f.type \in LogicalTypes)

\* a MaxCompute DDL with a FLOAT column, rendered as DOUBLE
WitC8 ==
    /\ RenderedDDL
    /\ CalledDialect = "maxcompute"
    /\ \E f \in FieldsOf(table) : f.type = TypeFLOAT /\ Rendered(f)
    /\ \E i \in 1..Len(ColumnBlock(sql.text)) :
          ColumnType(ColumnBlock(sql.text)[i], "maxcompute") = L("DOUBLE")

\* the specification's table applied to the upper-cased token, with the
\* dialect's default for every other token
SpecTypeOrDefault(d, type) ==
    IF ToUpperCase(type) \in LogicalTypes
    THEN SpecType(d, ToUpperCase(type)) ELSE SpecDefaultType(d)

\* C9 (as claimed): the lookup is case-insensitive and every token whose
\* upper-case form is not one of the nine logical types maps to the default
\* (STRING for Hive and MaxCompute, VARCHAR(255) for MySQL).
CexC9 ==
    RenderedDDL => ColumnTypesAre(SpecTypeOrDefault, LAMBDA f : TRUE)

\* the table with the three collection types MaxCompute maps besides
AmendedType(d, type) ==
    IF d = "maxcompute" /\ ToUpperCase(type) = TypeARRAY THEN L("ARRAY<STRING>")
    ELSE IF d = "maxcompute" /\ ToUpperCase(type) = TypeMAP THEN L("MAP<STRING, STRING>")
    ELSE IF d = "maxcompute" /\ ToUpperCase(type) = TypeSTRUCT THEN L("STRUCT<field1:STRING>")
    ELSE SpecTypeOrDefault(d, type)

\* C9 (amended): the lookup is case-insensitive and every token whose upper-case
\* form is not one of the nine logical types maps to the default, except that
\* MaxCompute maps ARRAY, MAP and STRUCT to ARRAY<STRING>, MAP<STRING, STRING>
\* and STRUCT<field1:STRING>.
ThmC9 ==
    RenderedDDL => ColumnTypesAre(AmendedType, LAMBDA f : TRUE)

\* a Hive DDL with a column of the lower-case type 'int', rendered as INT
WitC9 ==
    /\ RenderedDDL
    /\ CalledDialect = "hive"
    /\ table.fields = <<[name |-> <<"c">>, type |-> <<"i","n","t">>,
                         description |-> <<"c">>, nullable |-> TRUE]>>
    /\ table.partitionKeys = Undefined
    /\ ColumnType(ColumnBlock(sql.text)[1], "hive") = L("INT")

\* the names a block of column lines declares, in order
NamesIn(block) == [i \in 1..Len(block) |-> block[i][2]]

\* C10: for Hive and MaxCompute, generateDDL renders every field whose name is
\* not in partitionKeys exactly once, in declaration order, in the main column
\* block and no partition key there; it renders every partition key exactly once,
\* in partitionKeys order, in a PARTITIONED BY clause; with empty or absent
\* partitionKeys there is no PARTITIONED BY clause.
ThmC10 ==
    (CalledDDL /\ sql.outcome = "returned" /\ CalledDialect \in {"hive", "maxcompute"}) =>
        LET keys == IF table.partitionKeys = Undefined THEN <<>> ELSE table.partitionKeys[1]
            isKey(n) == \E i \in 1..Len(keys) : keys[i] = n
            names == [i \in 1..Len(table.fields) |-> table.fields[i].name]
        IN  /\ NamesIn(ColumnBlock(sql.text)) = SelectSeq(names, LAMBDA n : ~isKey(n))
            /\ keys # <<>> =>
                  /\ HasPartitionClause(sql.text)
                  /\ NamesIn(PartitionClause(sql.text)) = keys
            /\ keys = <<>> => ~HasPartitionClause(sql.text)

\* a Hive DDL of a table with fields amt, dt and partition keys dt, id
WitC10 ==
    /\ CalledDDL
    /\ sql.outcome = "returned"
    /\ CalledDialect = "hive"
    /\ table.fields = <<GenAmount, GenDt>>
    /\ table.partitionKeys = Some(<<NameDt, NameId>>)
    /\ NamesIn(ColumnBlock(sql.text)) = << <<"a", "m", "t">> >>
    /\ NamesIn(PartitionClause(sql.text)) = <<NameDt, NameId>>

\* a MaxCompute DDL of a table without partition keys: no PARTITIONED BY clause
WitC10NoKeys ==
    /\ CalledDDL
    /\ sql.outcome = "returned"
    /\ CalledDialect = "maxcompute"
    /\ table.partitionKeys = Some(<<>>)
    /\ Len(table.fields) = 2
    /\ ~HasPartitionClause(sql.text)

\* the partition keys of the table that are also fields of it
KeyFields(t) == {f \in FieldsOf(t) : Contains(PartitionKeysOf(t), f.name)}

\* a MySQL DDL text was returned
RenderedMySQLDDL == CalledDDL /\ sql.outcome = "returned" /\ CalledDialect = "mysql"

CalledCheckSQL == sql.outcome = "returned" /\ sql.op = "generateCheckSQL"

CheckSectionTitles ==
    {"-- 1. row count check", "-- 2. non-null check of the key fields",
     "-- 3. duplicate check", "-- 4. day-over-day row count fluctuation check"}

HasSection(lines, title) == FirstLine(lines, 0, {title}) # 0

\* the lines of a section of the check SQL: from its title to the next title
Section(lines, title) ==
    LET open == FirstLine(lines, 0, {title})
        next == FirstLine(lines, open, CheckSectionTitles)
    IN  IF open = 0 THEN <<>>
        ELSE SubSeq(lines, open + 1, IF next = 0 THEN Len(lines) ELSE next - 1)

\* the statement of a section is filtered by the dt of the business date
FilteredByDt(section) ==
    \E i \in 1..Len(section) : section[i] = <<L("WHERE dt = '${bizdate}';")>>

\* the statement of a section ends without a WHERE clause
Unfiltered(section) ==
    /\ \A i \in 1..Len(section) : ~StartsWith(section[i], "WHERE dt = '${bizdate}';")
    /\ \E i \in 1..Len(section) : section[i] = <<L(";")>>

\* 'dt' is one of the partition keys (absent partitionKeys have none)
DtIsPartitionKey(t) ==
    /\ t.partitionKeys # Undefined
    /\ \E i \in 1..Len(t.partitionKeys[1]) : t.partitionKeys[1][i] = NameDt

\* C12: generateCheckSQL emits the fluctuation section (4) exactly when 'dt' is
\* in partitionKeys; exactly then the row count check and the non-null check
\* are filtered by WHERE dt = '${bizdate}'; with absent or empty partitionKeys,
\* or keys without 'dt', there is neither the section nor the filter.
ThmC12 ==
    CalledCheckSQL =>
        LET rows == Section(sql.text, "-- 1. row count check")
            nonNull == Section(sql.text, "-- 2. non-null check of the key fields")
            hasNonNull == HasSection(sql.text, "-- 2. non-null check of the key fields")
            fluctuation ==
                HasSection(sql.text, "-- 4. day-over-day row count fluctuation check")
        IN  /\ fluctuation <=> DtIsPartitionKey(table)
            /\ DtIsPartitionKey(table) =>
                  FilteredByDt(rows) /\ (hasNonNull => FilteredByDt(nonNull))
            /\ ~DtIsPartitionKey(table) =>
                  Unfiltered(rows) /\ (hasNonNull => Unfiltered(nonNull))

\* the check SQL of a table partitioned by id and dt with a non-nullable field:
\* both checks are filtered and the fluctuation section is there
WitC12 ==
    /\ CalledCheckSQL
    /\ table.partitionKeys = Some(<<NameId, NameDt>>)
    /\ table.fields = <<GenId, GenAmount>>
    /\ FilteredByDt(Section(sql.text, "-- 1. row count check"))
    /\ FilteredByDt(Section(sql.text, "-- 2. non-null check of the key fields"))
    /\ HasSection(sql.text, "-- 4. day-over-day row count fluctuation check")

\* the check SQL of a table partitioned by id only: no filter, no section 4
WitC12NoDt ==
    /\ CalledCheckSQL
    /\ table.partitionKeys = Some(<<NameId>>)
    /\ table.fields = <<GenId, GenAmount>>
    /\ Unfiltered(Section(sql.text, "-- 2. non-null check of the key fields"))
    /\ ~HasSection(sql.text, "-- 4. day-over-day row count fluctuation check")

\* an ETL text was returned for Hive or MaxCompute
RenderedETL ==
    /\ CalledETL
    /\ sql.outcome = "returned"
    /\ CalledDialect \in {"hive", "maxcompute"}

\* the lines of a text that start with a given piece, in order
LinesStarting(lines, text) == SelectSeq(lines, LAMBDA line : StartsWith(line, text))

\* the TODO markers of the two dialects
TodoMarkers ==
    {L("  -- TODO: fill in the field logic"),
     L("  -- TODO: fill in the field conversion logic")}

WitC18NoSource ==
    /\ RenderedETL
    /\ CalledDialect = "hive"
    /\ table.fields = <<GenId, GenDt>>
    /\ table.partitionKeys = Undefined
    /\ table.dataSources = <<>>
    /\ Len(LinesStarting(sql.text, "        NULL AS ")) = 2
    /\ LinesStarting(sql.text, "    FROM ")[1][2] = L("source_table")
    /\ Len(LinesStarting(sql.text, "PARTITION (dt = '${bizdate}')")) = 0

\* the qualified name db.table with its dot replaced by an underscore
Underscored(name) == SplitDot(name)[1] \o <<"_">> \o SplitDot(name)[2]

\* a line of the MySQL column block carries NOT NULL
CarriesNotNull(line) == \E i \in 1..Len(line) : line[i] = L(" NOT NULL")

\* the last line of a text
LastLine(lines) == lines[Len(lines)]

\* C19: in the MySQL DDL the table name is the qualified name with its dot
\* replaced by an underscore, between back quotes; a column carries NOT NULL
\* exactly when the field's nullable is false; the statement ends with the
\* ENGINE=InnoDB DEFAULT CHARSET=utf8mb4 clause on the line that closes the
\* column list (with the table's COMMENT option after it when comments are
\* rendered) and the terminating ';'.
ThmC19 ==
    RenderedMySQLDDL =>
        LET create == LinesStarting(sql.text, "CREATE TABLE IF NOT EXISTS ")
            block == ColumnBlock(sql.text)
        IN  /\ Len(create) = 1
            /\ SubSeq(create[1], 2, 4) = <<BackQuote, Underscored(table.name), BackQuote>>
            /\ Len(block) = Len(table.fields)
            /\ \A i \in 1..Len(block) :
                  CarriesNotNull(block[i]) <=> (table.fields[i].nullable = FALSE)
            /\ LastLine(sql.text) \in
                  {<<L(") ENGINE=InnoDB DEFAULT CHARSET=utf8mb4"), L(";")>>,
                   <<L(") ENGINE=InnoDB DEFAULT CHARSET=utf8mb4"),
                     L(" COMMENT='"), table.displayName, L("'"), L(";")>>}

\* a MySQL DDL of dw.sales_daily with a non-nullable id and a nullable amt
WitC19 ==
    /\ RenderedMySQLDDL
    /\ table.name = NameSalesDaily
    /\ table.fields = <<GenId, GenAmount>>
    /\ CarriesNotNull(ColumnBlock(sql.text)[1])
    /\ ~CarriesNotNull(ColumnBlock(sql.text)[2])
    /\ LinesStarting(sql.text, "CREATE TABLE IF NOT EXISTS ")[1][3]
         = <<"d","w","_","s","a","l","e","s","_","d","a","i","l","y">>

\* the openers of the lines of SQL that the generator writes
SqlOpeners ==
    {"CREATE TABLE IF NOT EXISTS ", "    ", ")", "PARTITIONED BY (", "STORED AS PARQUET",
     "LIFECYCLE 365", "TBLPROPERTIES (", "    'owner' = '", "    'created_date' = '",
     "    'update_frequency' = '", "    'data_source' = '", ");",
     ") ENGINE=InnoDB DEFAULT CHARSET=utf8mb4",
     "INSERT OVERWRITE TABLE ", "PARTITION (dt = '${bizdate}')", "SELECT", "FROM (",
     "    SELECT", "        NULL AS ", "        ,'${bizdate}' AS dt", "    FROM ",
     "    WHERE dt = '${bizdate}'", ") t;", "INSERT INTO "}

\* a line that is a '--' comment: not empty, not a line of SQL and not the
\* COMMENT clause of a table
IsCommentLine(line) ==
    /\ line # <<>>
    /\ \A x \in SqlOpeners \cup {"COMMENT '"} : ~StartsWith(line, x)

\* a line with a COMMENT clause: of a column, of a Hive / MaxCompute table or of
\* a MySQL table
HasCommentClause(line) ==
    \E i \in 1..Len(line) : line[i] \in {L(" COMMENT '"), L("COMMENT '"), L(" COMMENT='")}

\* a line of SQL with a '--' comment after it, other than the TODO marker of a
\* NULL AS mapping
HasTrailingComment(line) ==
    \/ \E i \in 1..Len(line) : line[i] = L("  -- ")
    \/ \E i \in 1..Len(line) :
          line[i] \in TodoMarkers /\ ~(i = 3 /\ StartsWith(line, "        NULL AS "))

NoCommentLine(lines) == \A i \in 1..Len(lines) : ~IsCommentLine(lines[i])
NoCommentClause(lines) == \A i \in 1..Len(lines) : ~HasCommentClause(lines[i])

\* the call was made without includeComments and returns the text that the
\* same call with includeComments: true returns
DefaultIsTrue(generate(_, _, _, _)) ==
    (sql.outcome = "returned" /\ sql.options.includeComments = Undefined) =>
        sql.text = generate(dialect, table,
                            [sql.options EXCEPT !.includeComments = Some(TRUE)],
                            sql.date).text

\* the call was made with includeComments: false and returned a text
CalledWithoutComments ==
    /\ CalledDDL \/ CalledETL
    /\ sql.outcome = "returned"
    /\ sql.options.includeComments = Some(FALSE)

\* the texts that are placeholders: the MySQL ETL, the ClickHouse DDL and ETL
IsPlaceholderText ==
    /\ CalledDDL \/ CalledETL
    /\ sql.outcome = "returned"
    /\ \/ CalledDialect = "clickhouse"
       \/ CalledDialect = "mysql" /\ CalledETL

\* C20 (as claimed): generateDDL without includeComments returns what it returns
\* with includeComments: true, and with includeComments: false the text of
\* generateDDL and generateETL has no '--' comment line and no COMMENT clause,
\* for every supported dialect.
CexC20 ==
    /\ CalledDDL => DefaultIsTrue(generateDDL)
    /\ CalledWithoutComments => NoCommentLine(sql.text) /\ NoCommentClause(sql.text)

\* C20 (amended): generateDDL and generateETL without includeComments return
\* what they return with includeComments: true; with includeComments: false the
\* DDL of Hive, MySQL and MaxCompute and the ETL of Hive and MaxCompute have no
\* '--' comment line, no COMMENT clause and no '--' after a line of SQL except
\* the TODO marker of each NULL AS mapping; the placeholder texts (MySQL ETL,
\* ClickHouse DDL and ETL) begin with two '--' comment lines whatever the
\* option says.
ThmC20 ==
    /\ CalledDDL => DefaultIsTrue(generateDDL)
    /\ CalledETL => DefaultIsTrue(generateETL)
    /\ (CalledWithoutComments /\ ~IsPlaceholderText) =>
          /\ NoCommentLine(sql.text)
          /\ NoCommentClause(sql.text)
          /\ \A i \in 1..Len(sql.text) : ~HasTrailingComment(sql.text[i])
    /\ IsPlaceholderText =>
          /\ IsCommentLine(sql.text[1])
          /\ IsCommentLine(sql.text[2])
          /\ NoCommentClause(sql.text)

\* a Hive DDL made with includeComments: false for a table whose fields and
\* display name have descriptions: the text starts with CREATE TABLE
WitC20 ==
    /\ CalledWithoutComments
    /\ CalledDDL
    /\ CalledDialect = "hive"
    /\ table.fields = <<GenId, GenDt>>
    /\ table.displayName # <<>>
    /\ StartsWith(sql.text[1], "CREATE TABLE IF NOT EXISTS ")
    /\ NoCommentClause(sql.text)

\* a MySQL DDL made without includeComments: it has the comment header and the
\* COMMENT clauses
WitC20Default ==
    /\ RenderedMySQLDDL
    /\ sql.options.includeComments = Undefined
    /\ table.fields = <<GenId, GenDt>>
    /\ IsCommentLine(sql.text[1])
    /\ \E i \in 1..Len(sql.text) : HasCommentClause(sql.text[i])

\* a ClickHouse ETL made with includeComments: false: two comment lines
WitC20Placeholder ==
    /\ CalledWithoutComments
    /\ CalledETL
    /\ CalledDialect = "clickhouse"
    /\ sql.text[1] = <<L("-- ClickHouse ETL")>>

(***************************************************************************)
(* Markdown text and the regular expressions of the parsers.  A document   *)
(* is one JavaScript string: a sequence of characters with "nl" for the    *)
(* line break.  "fullcolon", "fullcomma" and "dunhao" are the full-width   *)
(* colon, the full-width comma and the ideographic comma.                  *)
(***************************************************************************)
NL == "nl"

\* \s
WhiteSpace == {" ", "tab", NL}

\* [:：] and [,，、]
Colons == {":", "fullcolon"}
Commas == {",", "fullcomma", "dunhao"}

Least(S) == CHOOSE x \in S : \A y \in S : x <= y
Greatest(S) == CHOOSE x \in S : \A y \in S : x >= y

\* the literal lit stands at position i of s
MatchAt(s, i, lit) ==
    /\ i >= 1
    /\ i + Len(lit) - 1 <= Len(s)
    /\ \A k \in 1..Len(lit) : s[i + k - 1] = lit[k]

\* the first position at or after from where lit stands, 0 when there is none
Find(s, from, lit) ==
    LET found == {i \in from..(Len(s) - Len(lit) + 1) : MatchAt(s, i, lit)}
    IN  IF found = {} THEN 0 ELSE Least(found)

\* \s* at position i (greedy): the position after the white space
SkipSpaces(s, i) ==
    Least({j \in i..(Len(s) + 1) : j = Len(s) + 1 \/ s[j] \notin WhiteSpace})

\* [chars]* at position i (greedy): the position after the run
SkipRun(s, i, chars) ==
    Least({j \in i..(Len(s) + 1) : j = Len(s) + 1 \/ s[j] \notin chars})

\* the last position of the line that position i is on ('.' matches no line break)
LineEnd(s, i) == Least({j \in i..(Len(s) + 1) : j = Len(s) + 1 \/ s[j] = NL}) - 1

\* String.prototype.trim
Trim(s) ==
    LET kept == {i \in 1..Len(s) : s[i] \notin WhiteSpace}
    IN  IF kept = {} THEN <<>> ELSE SubSeq(s, Least(kept), Greatest(kept))

\* String.prototype.split(/[seps]/): the pieces between the separators
RECURSIVE SplitOn(_, _)
SplitOn(s, seps) ==
    IF \A i \in 1..Len(s) : s[i] \notin seps
    THEN <<s>>
    ELSE LET k == Least({i \in 1..Len(s) : s[i] \in seps})
         IN  <<SubSeq(s, 1, k - 1)>> \o SplitOn(SubSeq(s, k + 1, Len(s)), seps)

\* String.prototype.replace(/lit/g, ''): every occurrence, left to right
RECURSIVE RemoveAll(_, _)
RemoveAll(s, lit) ==
    LET k == Find(s, 1, lit)
    IN  IF k = 0 THEN s
        ELSE SubSeq(s, 1, k - 1) \o RemoveAll(SubSeq(s, k + Len(lit), Len(s)), lit)

\* String.prototype.toLowerCase
ToLowerCase(s) ==
    [i \in 1..Len(s) |->
        IF \E k \in 1..Len(UpperLetters) : UpperLetters[k] = s[i]
        THEN LowerLetters[IndexOf(UpperLetters, s[i])] ELSE s[i]]

\* \s*(.+) at position q: where the capture starts, 0 when it cannot match.
\* The white space is taken greedily and given back until a character that is
\* not a line break follows; the capture runs to the end of that line.
CaptureStart(s, q) ==
    IF q > Len(s) + 1 THEN 0
    ELSE LET starts == {k \in q..SkipSpaces(s, q) : k <= Len(s) /\ s[k] # NL}
         IN  IF starts = {} THEN 0 ELSE Greatest(starts)

\* the text \s*(.+) captures at position q (CaptureStart(s, q) # 0)
Capture(s, q) == SubSeq(s, CaptureStart(s, q), LineEnd(s, CaptureStart(s, q)))

\* -\s*\*\*key[:：]\*\* at position p: the position after it, 0 when no match
LabelEnd(s, p, key) ==
    IF p > Len(s) \/ s[p] # "-" THEN 0
    ELSE LET a == SkipSpaces(s, p + 1)
             b == a + 2 + Len(key)
         IN  IF /\ MatchAt(s, a, <<"*", "*">> \o key)
                /\ b <= Len(s)
                /\ s[b] \in Colons
                /\ MatchAt(s, b + 1, <<"*", "*">>)
             THEN b + 3 ELSE 0

\* the first match of -\s*\*\*key[:：]\*\*\s*(.+) at or after position from:
\* the captured text, <<>> when the pattern does not match
LabeledValue(s, from, key) ==
    LET matches == {p \in from..Len(s) :
                       LabelEnd(s, p, key) # 0 /\ CaptureStart(s, LabelEnd(s, p, key)) # 0}
    IN  IF matches = {} THEN <<>> ELSE Capture(s, LabelEnd(s, Least(matches), key))

\* ##\s*title at position h: the position after it, 0 when no match
HeadingEnd(s, h, title) ==
    IF ~MatchAt(s, h, <<"#", "#">>) THEN 0
    ELSE IF MatchAt(s, SkipSpaces(s, h + 2), title)
         THEN SkipSpaces(s, h + 2) + Len(title) ELSE 0

\* the position after the first ##\s*title of the text, 0 when there is none
FirstHeadingEnd(s, title) ==
    LET headings == {h \in 1..Len(s) : HeadingEnd(s, h, title) # 0}
    IN  IF headings = {} THEN 0 ELSE HeadingEnd(s, Least(headings), title)

(***************************************************************************)
(* TableParser (src/core/parsers/table-parser.ts).                         *)
(***************************************************************************)
\* the words of the document format
WordTableDefinition == <<"biao", "ding", "yi">>
WordDisplayName == <<"zhong", "wen", "ming">>
WordOwner == <<"fu", "ze", "ren">>
WordUpdateFrequency == <<"geng", "xin", "pin", "lv">>
WordDataSources == <<"shu", "ju", "lai", "yuan">>
WordTableDescription == <<"biao", "miao", "shu_state">>
WordBasicInfo == <<"ji", "ben", "xin_info", "xi">>
WordDescription == <<"miao", "shu_state">>
WordFieldDefinitions == <<"zi", "duan", "ding", "yi">>
WordPartitionFields == <<"fen", "qu", "zi", "duan">>
WordPartitionKey == <<"fen", "qu", "jian">>
WordIndexes == <<"suo", "yin">>
WordConsumers == <<"xia", "you", "xiao_consume", "fei">>
WordQualityRules == <<"shu", "ju", "zhi_quality", "liang", "gui", "ze_rule">>
WordRealtime == <<"shi_real", "shi_time">>
WordHour == <<"xiao_small", "shi_time">>
WordWeek == <<"zhou">>
WordYes == <<"shi">>

NameNotFound == [text |-> "table name not found", args |-> <<>>]

\* /^#\s+<word>[:：]\s* at position p (flag m): the position after it, 0 when
\* no match
TitleEnd(s, p, word) ==
    IF ~((p = 1 \/ s[p - 1] = NL) /\ MatchAt(s, p, <<"#">>)) THEN 0
    ELSE IF p + 1 > Len(s) \/ s[p + 1] \notin WhiteSpace THEN 0
    ELSE LET a == SkipSpaces(s, p + 1)
         IN  IF MatchAt(s, a, word) /\ a + Len(word) <= Len(s) /\ s[a + Len(word)] \in Colons
             THEN SkipSpaces(s, a + Len(word) + 1) ELSE 0

\* ([a-z_]+\.[a-z_]+) at position b: the position after it, 0 when no match
QualifiedNameEnd(s, b) ==
    LET chars == LowerCase \cup {"_"}
        dot == SkipRun(s, b, chars)
    IN  IF dot = b \/ dot > Len(s) \/ s[dot] # "." THEN 0
        ELSE IF SkipRun(s, dot + 1, chars) = dot + 1 THEN 0
        ELSE SkipRun(s, dot + 1, chars)

\* content.match(/^#\s+<table definition>[:：]\s*([a-z_]+\.[a-z_]+)/m)
extractTableName(s) ==
    LET matches == {p \in 1..Len(s) :
                       TitleEnd(s, p, WordTableDefinition) # 0
                       /\ QualifiedNameEnd(s, TitleEnd(s, p, WordTableDefinition)) # 0}
        b == TitleEnd(s, Least(matches), WordTableDefinition)
    IN  IF matches = {}
        THEN [threw |-> TRUE, name |-> <<>>]
        ELSE [threw |-> FALSE, name |-> Trim(SubSeq(s, b, QualifiedNameEnd(s, b) - 1))]

\* (?=\n##|\n---|\n```|$) at position e
DescriptionEnds(s, e) ==
    \/ e = Len(s) + 1
    \/ MatchAt(s, e, <<NL, "#", "#">>)
    \/ MatchAt(s, e, <<NL, "-", "-", "-">>)
    \/ MatchAt(s, e, <<NL, "backquote", "backquote", "backquote">>)

\* ##\s*<heading>[\s\S]*?\n\n([\s\S]*?)(?=\n##|\n---|\n```|$): <<text>> captured,
\* <<>> when the pattern does not match
SectionText(s, heading) ==
    LET h == FirstHeadingEnd(s, heading)
        gap == IF h = 0 THEN 0 ELSE Find(s, h, <<NL, NL>>)
    IN  IF gap = 0 THEN Undefined
        ELSE Some(SubSeq(s, gap + 2,
                         Least({e \in (gap + 2)..(Len(s) + 1) : DescriptionEnds(s, e)}) - 1))

\* ##\s*<heading>[\s\S]*?-\s*\*\*<key>[:：]\*\*\s*(.+): the captured text, <<>>
\* when the pattern does not match
SectionValue(s, heading, key) ==
    IF FirstHeadingEnd(s, heading) = 0 THEN <<>>
    ELSE LabeledValue(s, FirstHeadingEnd(s, heading), key)

extractDescription(s) ==
    IF SectionText(s, WordTableDescription) # Undefined
    THEN Trim(SectionText(s, WordTableDescription)[1])
    ELSE Trim(SectionValue(s, WordBasicInfo, WordDescription))

extractValue(s, key) == Trim(RemoveAll(Trim(LabeledValue(s, 1, key)), Placeholder))

extractUpdateFrequency(s) ==
    LET value == ToLowerCase(extractValue(s, WordUpdateFrequency))
    IN  IF Includes(value, <<"r","e","a","l","t","i","m","e">>) \/ Includes(value, WordRealtime)
        THEN "realtime"
        ELSE IF Includes(value, <<"h","o","u","r","l","y">>) \/ Includes(value, WordHour)
        THEN "hourly"
        ELSE IF Includes(value, <<"w","e","e","k","l","y">>) \/ Includes(value, WordWeek)
        THEN "weekly"
        ELSE "daily"

\* (?=\n##|\n---|\n>|\n\n[^|]) at position e
FieldTableEnds(s, e) ==
    \/ MatchAt(s, e, <<NL, "#", "#">>)
    \/ MatchAt(s, e, <<NL, "-", "-", "-">>)
    \/ MatchAt(s, e, <<NL, ">">>)
    \/ MatchAt(s, e, <<NL, NL>>) /\ e + 2 <= Len(s) /\ s[e + 2] # "|"

\* ##\s*<field definitions>[\s\S]*?\n(\|[\s\S]*?)(?=...): <<text>> captured,
\* <<>> when the pattern does not match
FieldTable(s) ==
    LET h == FirstHeadingEnd(s, WordFieldDefinitions)
        bar == IF h = 0 THEN 0 ELSE Find(s, h, <<NL, "|">>)
        ends == IF bar = 0 THEN {} ELSE {e \in (bar + 2)..Len(s) : FieldTableEnds(s, e)}
    IN  IF ends = {} THEN Undefined ELSE Some(SubSeq(s, bar + 1, Least(ends) - 1))

\* line.split('|').map(c => c.trim()).filter(Boolean)
Cols(line) ==
    SelectSeq([i \in 1..Len(SplitOn(line, {"|"})) |-> Trim(SplitOn(line, {"|"})[i])],
              LAMBDA c : c # <<>>)

\* Array.prototype.slice(n)
Slice(seq, n) == IF Len(seq) <= n THEN <<>> ELSE SubSeq(seq, n + 1, Len(seq))

\* the field of a row of at least three cells
FieldOfCols(cols) ==
    [name        |-> cols[1],
     type        |-> IF cols[2] = <<>> THEN TypeSTRING ELSE cols[2],
     description |-> cols[3],
     nullable    |-> IF Len(cols) >= 4 THEN cols[4] # WordYes ELSE TRUE,
     example     |-> IF Len(cols) >= 5 THEN Some(cols[5]) ELSE Undefined]

extractFields(s) ==
    IF FieldTable(s) = Undefined THEN <<>>
    ELSE LET lines == SelectSeq(SplitOn(FieldTable(s)[1], {NL}), LAMBDA l : Trim(l) # <<>>)
             dataLines == SelectSeq(Slice(lines, 2), LAMBDA l : ~Includes(l, <<"-", "-", "-">>))
             rows == SelectSeq([i \in 1..Len(dataLines) |-> Cols(dataLines[i])],
                               LAMBDA cols : Len(cols) >= 3)
         IN  [i \in 1..Len(rows) |-> FieldOfCols(rows[i])]

\* text.trim().split(/[,，、]/).map(k => k.trim()).filter(Boolean), undefined
\* when nothing is left
ListOrUndefined(text) ==
    LET pieces == SplitOn(Trim(text), Commas)
        items == SelectSeq([i \in 1..Len(pieces) |-> Trim(pieces[i])], LAMBDA k : k # <<>>)
    IN  IF Len(items) > 0 THEN Some(items) ELSE Undefined

extractPartitionKeys(s) ==
    IF SectionValue(s, WordPartitionFields, WordPartitionKey) = <<>> THEN Undefined
    ELSE ListOrUndefined(SectionValue(s, WordPartitionFields, WordPartitionKey))

\* ##\s*<indexes>[\s\S]*?-\s*(.+)
extractIndexes(s) ==
    LET h == FirstHeadingEnd(s, WordIndexes)
        dashes == IF h = 0 THEN {}
                  ELSE {p \in h..Len(s) : s[p] = "-" /\ CaptureStart(s, p + 1) # 0}
    IN  IF dashes = {} THEN Undefined
        ELSE ListOrUndefined(Capture(s, Least(dashes) + 1))

\* extractDataSources that reports 'unspecified' when there is no line
extractDataSourcesUnspecified(s) ==
    LET value == extractValue(s, WordDataSources)
        pieces == SplitOn(value, Commas \cup {NL})
        sources == SelectSeq([i \in 1..Len(pieces) |-> Trim(pieces[i])],
                             LAMBDA x : x # <<>> /\ ~Includes(x, Placeholder))
    IN  IF Len(sources) > 0 /\ value # <<>> THEN sources ELSE <<Unspecified>>

extractDataSources(s) ==
    LET value == extractValue(s, WordDataSources)
        pieces == SplitOn(value, Commas \cup {NL})
        sources == SelectSeq([i \in 1..Len(pieces) |-> Trim(pieces[i])],
                             LAMBDA x : x # <<>> /\ ~Includes(x, Placeholder))
    IN  IF value = <<>> THEN <<>>
        ELSE IF Len(sources) > 0 THEN sources ELSE <<Unspecified>>

\* \n-\s*(.+) at position g
ItemAt(s, g) == MatchAt(s, g, <<NL, "-">>) /\ CaptureStart(s, g + 2) # 0

\* (?:\n-\s*(.+))+ at position g (ItemAt(s, g)): the last position of the match
RECURSIVE ItemsEnd(_, _)
ItemsEnd(s, g) ==
    LET end == LineEnd(s, CaptureStart(s, g + 2))
    IN  IF ItemAt(s, end + 1) THEN ItemsEnd(s, end + 1) ELSE end

\* match[0] of ##\s*<heading>[\s\S]*?(?:\n-\s*(.+))+ : <<text>>, <<>> when the
\* pattern does not match
ListSection(s, heading) ==
    LET headings == {h \in 1..Len(s) : HeadingEnd(s, h, heading) # 0}
        start == Least(headings)
        items == {g \in HeadingEnd(s, start, heading)..Len(s) : ItemAt(s, g)}
    IN  IF headings = {} THEN Undefined
        ELSE IF items = {} THEN Undefined
        ELSE Some(SubSeq(s, start, ItemsEnd(s, Least(items))))

\* line.replace(/^-\s*/, '').trim()
StripDash(line) ==
    IF MatchAt(line, 1, <<"-">>)
    THEN Trim(SubSeq(line, SkipSpaces(line, 2), Len(line))) ELSE Trim(line)

\* the items of the lines of a section that start with a dash
ListItems(text) ==
    LET lines == SelectSeq(SplitOn(text, {NL}), LAMBDA l : MatchAt(Trim(l), 1, <<"-">>))
    IN  [i \in 1..Len(lines) |-> StripDash(lines[i])]

extractConsumers(s) ==
    IF ListSection(s, WordConsumers) = Undefined THEN Undefined
    ELSE LET consumers == SelectSeq(ListItems(ListSection(s, WordConsumers)[1]),
                                    LAMBDA x : x # <<>>)
         IN  IF Len(consumers) > 0 THEN Some(consumers) ELSE Undefined

extractQualityRules(s) ==
    IF ListSection(s, WordQualityRules) = Undefined THEN Undefined
    ELSE LET rules == SelectSeq(ListItems(ListSection(s, WordQualityRules)[1]),
                                LAMBDA x : x # <<>> /\ ~Includes(x, Placeholder))
         IN  IF Len(rules) > 0 THEN Some(rules) ELSE Undefined

\* TableParser.parse: the record, or the error of extractTableName
TableParserParse(s) ==
    IF extractTableName(s).threw
    THEN [outcome |-> "threw", error |-> NameNotFound]
    ELSE [outcome |-> "returned",
          value |-> [metadata        |-> [format |-> "dataspec-table", version |-> "1.0"],
                     name            |-> extractTableName(s).name,
                     displayName     |-> extractValue(s, WordDisplayName),
                     description     |-> extractDescription(s),
                     owner           |-> extractValue(s, WordOwner),
                     updateFrequency |-> extractUpdateFrequency(s),
                     fields          |-> extractFields(s),
                     partitionKeys   |-> extractPartitionKeys(s),
                     indexes         |-> extractIndexes(s),
                     dataSources     |-> extractDataSources(s),
                     consumers       |-> extractConsumers(s),
                     qualityRules    |-> extractQualityRules(s)]]

(***************************************************************************)
(* Inputs of the parser: documents put together from the lines and the     *)
(* sections of the table template (src/core/templates/table-template.ts).  *)
(***************************************************************************)
\* the title line of the template, with the full-width colon
TitleFullWidth ==
    <<"#", " ", "biao", "ding", "yi", "fullcolon", "d", "w", ".", "s", "a",
      "l", "e", "s", "_", "d", "a", "i", "l", "y", "nl">>

\* with the ASCII colon
TitleAscii ==
    <<"#", " ", "biao", "ding", "yi", ":", " ", "d", "w", ".", "s", "a",
      "l", "e", "s", "_", "d", "a", "i", "l", "y", "nl">>

\* an identifier with digits
TitleDigits ==
    <<"#", " ", "biao", "ding", "yi", "fullcolon", "d", "w", ".", "s", "a",
      "l", "e", "s", "_", "2", "0", "2", "4", "nl">>

\* an identifier with a capital letter
TitleUpperCase ==
    <<"#", " ", "biao", "ding", "yi", "fullcolon", "d", "w", ".", "S", "a",
      "l", "e", "s", "nl">>

\* an identifier of three parts
TitleThreeParts ==
    <<"#", " ", "biao", "ding", "yi", "fullcolon", "d", "w", ".", "s", "a",
      "l", "e", "s", ".", "d", "a", "i", "l", "y", "nl">>

\* no space after the #
TitleNoSpace ==
    <<"#", "biao", "ding", "yi", "fullcolon", "d", "w", ".", "s", "a", "l",
      "e", "s", "_", "d", "a", "i", "l", "y", "nl">>

\* a second-level heading
TitleSecondLevel ==
    <<"#", "#", " ", "biao", "ding", "yi", "fullcolon", "d", "w", ".", "s",
      "a", "l", "e", "s", "_", "d", "a", "i", "l", "y", "nl">>

\* an identifier without a dot
TitleNoDot ==
    <<"#", " ", "biao", "ding", "yi", "fullcolon", "s", "a", "l", "e", "s",
      "nl">>

BasicHeading ==
    <<"nl", "#", "#", " ", "ji", "ben", "xin_info", "xi", "nl">>

LineDisplayName ==
    <<"-", " ", "*", "*", "zhong", "wen", "ming", "fullcolon", "*", "*",
      " ", "xiao", "shou", "ri", "biao", "nl">>

LineOwner ==
    <<"-", " ", "*", "*", "fu", "ze", "ren", "fullcolon", "*", "*", " ",
      "zhang", "san", "nl">>

\* the owner line of the template, not filled in
LineOwnerPlaceholder ==
    <<"-", " ", "*", "*", "fu", "ze", "ren", "fullcolon", "*", "*", " ",
      "[", "qing", "tian", "xie", "]", "nl">>

\* an owner line without a value
LineOwnerEmpty ==
    <<"-", " ", "*", "*", "fu", "ze", "ren", "fullcolon", "*", "*", "nl">>

\* the description as a line of the basic information
LineDescription ==
    <<"-", " ", "*", "*", "miao", "shu_state", "fullcolon", "*", "*", " ",
      "mei", "tian_day", "de", "xiao", "shou", "hui", "zong", "nl">>

LineFrequency ==
    <<"-", " ", "*", "*", "geng", "xin", "pin", "lv", "fullcolon", "*",
      "*", " ", "H", "o", "u", "r", "l", "y", "nl">>

LineSources ==
    <<"-", " ", "*", "*", "shu", "ju", "lai", "yuan", "fullcolon", "*",
      "*", " ", "o", "d", "s", ".", "o", "r", "d", "e", "r", "s", ",", " ",
      "o", "d", "s", ".", "u", "s", "e", "r", "s", "nl">>

\* the data source line with one source not filled in
LineSourcesPlaceholder ==
    <<"-", " ", "*", "*", "shu", "ju", "lai", "yuan", "fullcolon", "*",
      "*", " ", "[", "qing", "tian", "xie", "]", ",", " ", "o", "d", "s",
      ".", "o", "r", "d", "e", "r", "s", "nl">>

\* the data source line of the template, not filled in
LineSourcesTemplate ==
    <<"-", " ", "*", "*", "shu", "ju", "lai", "yuan", "fullcolon", "*",
      "*", " ", "[", "qing", "tian", "xie", "]", "nl">>

DescriptionSection ==
    <<"nl", "#", "#", " ", "biao", "miao", "shu_state", "nl", "nl", "mei",
      "tian_day", "de", "xiao", "shou", "hui", "zong", "biao", "nl">>

FieldTableHead ==
    <<"nl", "#", "#", " ", "zi", "duan", "ding", "yi", "nl", "nl", "|",
      " ", "zi", "duan", "ming", " ", "|", " ", "lei", "xing", " ", "|",
      " ", "shuo", "ming_bright", " ", "|", " ", "shi", "fou", "bi",
      "tian", " ", "|", " ", "shi_show", "li", " ", "|", "nl", "|", "-",
      "-", "-", "-", "-", "-", "-", "-", "|", "-", "-", "-", "-", "-", "-",
      "|", "-", "-", "-", "-", "-", "-", "|", "-", "-", "-", "-", "-", "-",
      "-", "-", "-", "|", "-", "-", "-", "-", "-", "-", "|", "nl">>

\* a row of five cells, marked required
RowId ==
    <<"|", " ", "i", "d", " ", "|", " ", "S", "T", "R", "I", "N", "G", " ",
      "|", " ", "zhu", "jian", " ", "|", " ", "shi", " ", "|", " ", "1",
      "2", "3", "4", "5", " ", "|", "nl">>

\* a row of five cells, marked not required
RowAmount ==
    <<"|", " ", "a", "m", "t", " ", "|", " ", "D", "E", "C", "I", "M", "A",
      "L", " ", "|", " ", "jin", "e_amount", " ", "|", " ", "fou", " ",
      "|", " ", "9", ".", "5", " ", "|", "nl">>

\* a row of four cells
RowDt ==
    <<"|", " ", "d", "t", " ", "|", " ", "D", "A", "T", "E", " ", "|", " ",
      "ri", "qi", " ", "|", " ", "shi", " ", "|", "nl">>

\* a row of three cells
RowCount ==
    <<"|", " ", "c", "n", "t", " ", "|", " ", "I", "N", "T", " ", "|", " ",
      "ji_count", "shu", " ", "|", "nl">>

\* a row whose description cell is empty
RowEmptyDescription ==
    <<"|", " ", "a", "m", "t", " ", "|", " ", "D", "E", "C", "I", "M", "A",
      "L", " ", "|", " ", " ", "|", " ", "shi", " ", "|", " ", "9", ".",
      "5", " ", "|", "nl">>

\* a row whose required cell is empty
RowEmptyRequired ==
    <<"|", " ", "a", "m", "t", " ", "|", " ", "D", "E", "C", "I", "M", "A",
      "L", " ", "|", " ", "jin", "e_amount", " ", "|", " ", " ", "|", " ",
      "9", ".", "5", " ", "|", "nl">>

\* the line that follows the field table in the template
TipLine ==
    <<"nl", ">", " ", "t", "i", "p", "nl">>

PartitionSection ==
    <<"nl", "#", "#", " ", "fen", "qu", "zi", "duan", "nl", "-", " ", "*",
      "*", "fen", "qu", "jian", "fullcolon", "*", "*", " ", "d", "t", "nl">>

IndexSection ==
    <<"nl", "#", "#", " ", "suo", "yin", "nl", "-", " ", "i", "d", ",",
      " ", "d", "t", "nl">>

ConsumersSection ==
    <<"nl", "#", "#", " ", "xia", "you", "xiao_consume", "fei", "nl", "-",
      " ", "ri", "bao", "nl", "-", " ", "zhou", "bao", "nl">>

QualitySection ==
    <<"nl", "#", "#", " ", "shu", "ju", "zhi_quality", "liang", "gui",
      "ze_rule", "nl", "-", " ", "i", "d", " ", "bu", "neng", "wei_be",
      "kong", "nl", "-", " ", "[", "qing", "tian", "xie", "]", "nl">>

\* an owner line with the sentinel written inside the sentinel
LineOwnerNested ==
    <<"-", " ", "*", "*", "fu", "ze", "ren", "fullcolon", "*", "*", " ",
      "[", "qing", "[", "qing", "tian", "xie", "]", "tian", "xie", "]",
      "nl">>

\* an owner line with the sentinel after a name
LineOwnerMixed ==
    <<"-", " ", "*", "*", "fu", "ze", "ren", "fullcolon", "*", "*", " ",
      "zhang", "san", " ", "[", "qing", "tian", "xie", "]", "nl">>

\* a display name line with the sentinel written inside the sentinel
LineDisplayNameNested ==
    <<"-", " ", "*", "*", "zhong", "wen", "ming", "fullcolon", "*", "*",
      " ", "[", "qing", "[", "qing", "tian", "xie", "]", "tian", "xie",
      "]", "nl">>

\* a data source line whose first source is the nested sentinel
LineSourcesNested ==
    <<"-", " ", "*", "*", "shu", "ju", "lai", "yuan", "fullcolon", "*",
      "*", " ", "[", "qing", "[", "qing", "tian", "xie", "]", "tian",
      "xie", "]", ",", " ", "o", "d", "s", ".", "o", "r", "d", "e", "r",
      "s", "nl">>

\* documents whose labelled lines hold the sentinel, alone, beside a value or
\* nested
PlaceholderDocuments ==
    {TitleFullWidth \o BasicHeading \o dn \o ow \o so :
        dn \in {LineDisplayName, LineDisplayNameNested},
        ow \in {LineOwnerPlaceholder, LineOwnerNested, LineOwnerMixed},
        so \in {LineSourcesPlaceholder, LineSourcesNested}}

Titles ==
    {TitleFullWidth, TitleAscii, TitleDigits, TitleUpperCase, TitleThreeParts,
     TitleNoSpace, TitleSecondLevel, TitleNoDot}

RowPool == {RowId, RowAmount, RowDt, RowCount, RowEmptyDescription, RowEmptyRequired}

Optional(text) == {<<>>, text}

\* the texts of a sequence, one after the other
RECURSIVE Concat(_)
Concat(texts) == IF texts = <<>> THEN <<>> ELSE Head(texts) \o Concat(Tail(texts))

\* the basic information section with any of its five lines, filled in or not
BasicInfos ==
    {BasicHeading \o dn \o de \o ow \o fr \o so :
        dn \in Optional(LineDisplayName),
        de \in Optional(LineDescription),
        ow \in {<<>>, LineOwner, LineOwnerPlaceholder, LineOwnerEmpty},
        fr \in Optional(LineFrequency),
        so \in {<<>>, LineSources, LineSourcesPlaceholder, LineSourcesTemplate}}

FullBasicInfo == BasicHeading \o LineDisplayName \o LineOwner \o LineFrequency \o LineSources

FieldSection(rows) == FieldTableHead \o Concat(rows) \o TipLine

\* any of the six sections after the basic information
SectionSets ==
    {d \o f \o p \o i \o c \o q :
        d \in Optional(DescriptionSection), f \in Optional(FieldSection(<<RowId, RowAmount>>)),
        p \in Optional(PartitionSection), i \in Optional(IndexSection),
        c \in Optional(ConsumersSection), q \in Optional(QualitySection)}

AllSections ==
    DescriptionSection \o FieldSection(<<RowId, RowAmount>>) \o PartitionSection
        \o IndexSection \o ConsumersSection \o QualitySection

\* field tables of up to MaxRows rows, followed by the tip line or by a section
\* or at the end of the text
FieldDocuments ==
    {TitleFullWidth \o FullBasicInfo \o FieldTableHead \o Concat(rows) \o after :
        rows \in SeqsUpTo(RowPool, MaxRows), after \in {TipLine, PartitionSection, <<>>}}

TableDocuments ==
         {title \o body : title \in Titles \cup {<<>>},
                          body \in {<<>>, FullBasicInfo \o AllSections}}
    \cup {TitleFullWidth \o basic \o sections :
             basic \in BasicInfos, sections \in {<<>>, AllSections}}
    \cup {TitleFullWidth \o FullBasicInfo \o sections : sections \in SectionSets}
    \cup {LineOwner \o TitleAscii \o basic : basic \in {<<>>, FullBasicInfo}}
    \cup FieldDocuments
    \cup PlaceholderDocuments

\* a finished parse call: which parser, on which text, and what came of it
Parsed(parser, text, r) ==
    [parser |-> parser, content |-> text, outcome |-> r.outcome,
     value |-> IF r.outcome = "returned" THEN r.value ELSE Undefined,
     error |-> IF r.outcome = "threw" THEN r.error ELSE NoError]

\* the variables of the validator and of the generator, at rest
CoreIdle ==
    /\ table = BaseTable
    /\ result = NotRun
    /\ dialect = "hive"
    /\ sql = NotRun

(***************************************************************************)
(* The table parser as a state machine: new TableParser(), then one        *)
(* parse(content) for one document.                                        *)
(***************************************************************************)
InitParser ==
    /\ content \in TableDocuments
    /\ parsed = NotRun
    /\ earlier = <<>>
    /\ CoreIdle
    /\ CommandIdle
    /\ RegistryIdle

ParseTable ==
    /\ parsed = NotRun
    /\ parsed' = Parsed("table", content, TableParserParse(content))
    /\ UNCHANGED <<table, result, dialect, sql, content, earlier, commandVars, registryVars>>

NextParser == ParseTable

SpecParser == InitParser /\ [][NextParser]_vars

(***************************************************************************)
(* Claims about the table parser (checked under SpecParser).               *)
(***************************************************************************)
\* TableParser.parse has been called and has returned a record
ParseReturned == parsed.outcome = "returned" /\ parsed.parser = "table"

\* the lines of a text
LinesOf(text) == SplitOn(text, {NL})

\* a heading line '# <table definition>:' with either colon
IsTitleLine(line) ==
    \E colon \in Colons : MatchAt(line, 1, <<"#", " ">> \o WordTableDefinition \o <<colon>>)

\* what is written on a title line after the colon
TitleIdentifier(line) == Trim(SubSeq(line, 3 + Len(WordTableDefinition) + 1, Len(line)))

\* an identifier of the form a.b: no white space, a dot, no empty part
IsQualified(id) ==
    /\ \A i \in 1..Len(id) : id[i] \notin WhiteSpace
    /\ Len(SplitDot(id)) >= 2
    /\ \A i \in 1..Len(SplitDot(id)) : SplitDot(id)[i] # <<>>

\* the identifiers a.b that the title lines of a text carry, in order
TitleIdentifiers(text) ==
    LET titles == SelectSeq(LinesOf(text),
                            LAMBDA l : IsTitleLine(l) /\ IsQualified(TitleIdentifier(l)))
    IN  [i \in 1..Len(titles) |-> TitleIdentifier(titles[i])]

\* C13 (as claimed): for a document with a title line '# <table definition>: a.b'
\* parse returns a record whose name is the whole identifier a.b, and it raises
\* the 'table name not found' error exactly when no line is such a title line.
CexC13 ==
    parsed.outcome # "none" =>
        /\ TitleIdentifiers(content) # <<>> =>
              ParseReturned /\ parsed.value.name = TitleIdentifiers(content)[1]
        /\ parsed.outcome = "threw" <=> TitleIdentifiers(content) = <<>>
        /\ parsed.outcome = "threw" => parsed.error = NameNotFound

\* the text has a title line whose identifier is a valid table name
HasValidTitle(text) ==
    LET lines == LinesOf(text)
    IN  \E i \in 1..Len(lines) :
            IsTitleLine(lines[i]) /\ MatchesTableName(TitleIdentifier(lines[i]))

\* no line of the text carries the label **key
LabelAbsent(text, key) == ~Includes(text, <<"*", "*">> \o key)

\* no heading of the text carries the word
HeadingAbsent(text, word) ==
    LET lines == LinesOf(text)
    IN  \A i \in 1..Len(lines) :
            MatchAt(lines[i], 1, <<"#", "#">>) => ~Includes(lines[i], word)

\* C14: for a document with a valid title line parse returns a record, whatever
\* else is missing, and each absent part is at its default: displayName '',
\* owner '', description '', updateFrequency 'daily', fields [], dataSources [],
\* and partitionKeys, indexes, consumers and qualityRules undefined.
ThmC14 ==
    (parsed.outcome # "none" /\ HasValidTitle(content)) =>
        /\ ParseReturned
        /\ LabelAbsent(content, WordDisplayName) => parsed.value.displayName = <<>>
        /\ LabelAbsent(content, WordOwner) => parsed.value.owner = <<>>
        /\ (HeadingAbsent(content, WordTableDescription)
               /\ LabelAbsent(content, WordDescription)) => parsed.value.description = <<>>
        /\ LabelAbsent(content, WordUpdateFrequency) => parsed.value.updateFrequency = "daily"
        /\ HeadingAbsent(content, WordFieldDefinitions) => parsed.value.fields = <<>>
        /\ LabelAbsent(content, WordDataSources) => parsed.value.dataSources = <<>>
        /\ HeadingAbsent(content, WordPartitionFields) => parsed.value.partitionKeys = Undefined
        /\ HeadingAbsent(content, WordIndexes) => parsed.value.indexes = Undefined
        /\ HeadingAbsent(content, WordConsumers) => parsed.value.consumers = Undefined
        /\ HeadingAbsent(content, WordQualityRules) => parsed.value.qualityRules = Undefined

\* the document that is a title line and nothing else: every default at once
WitC14 ==
    /\ ParseReturned
    /\ content = TitleFullWidth
    /\ parsed.value.name = NameSalesDaily
    /\ parsed.value.displayName = <<>>
    /\ parsed.value.owner = <<>>
    /\ parsed.value.description = <<>>
    /\ parsed.value.updateFrequency = "daily"
    /\ parsed.value.fields = <<>>
    /\ parsed.value.dataSources = <<>>
    /\ parsed.value.partitionKeys = Undefined
    /\ parsed.value.qualityRules = Undefined

\* a document with an owner and a frequency but without data sources, field
\* table or partition section
WitC14Partial ==
    /\ ParseReturned
    /\ content = TitleFullWidth \o BasicHeading \o LineOwner \o LineFrequency
    /\ parsed.value.owner = OwnerZhangSan
    /\ parsed.value.updateFrequency = "hourly"
    /\ parsed.value.dataSources = <<>>
    /\ parsed.value.fields = <<>>
    /\ parsed.value.partitionKeys = Undefined

\* the data rows of the field table of a text: the lines that start with a
\* vertical bar, but for the head line and the separator line
DataRows(text) == Slice(SelectSeq(LinesOf(text), LAMBDA l : MatchAt(l, 1, <<"|">>)), 2)

\* the cells of a row: what stands between its vertical bars, trimmed; an
\* empty cell stays where it is
Cells(row) ==
    LET pieces == SplitOn(Trim(row), {"|"})
    IN  [i \in 1..(Len(pieces) - 2) |-> Trim(pieces[i + 1])]

\* the field that the cells of a row describe
FieldOfCells(cells) ==
    [name        |-> cells[1],
     type        |-> cells[2],
     description |-> cells[3],
     nullable    |-> ~(Len(cells) >= 4 /\ cells[4] = WordYes),
     example     |-> IF Len(cells) >= 5 /\ cells[5] # <<>> THEN Some(cells[5]) ELSE Undefined]

\* the text has a field table that extractFields reads
ReadsFieldTable ==
    /\ ParseReturned
    /\ FieldTable(content) # Undefined
    /\ \A i \in 1..Len(DataRows(content)) : Len(Cells(DataRows(content)[i])) >= 3

\* C16 (as claimed): every data row of the field table becomes a field whose
\* name, type and description are the first three cells, whose nullable is
\* false exactly when the 4th cell is the 'yes' marker, and whose example is
\* the 5th cell, also when a cell of the row is empty.
CexC16 ==
    ReadsFieldTable =>
        parsed.value.fields =
            [i \in 1..Len(DataRows(content)) |-> FieldOfCells(Cells(DataRows(content)[i]))]

(***************************************************************************)
(* The validate command (src/commands/validate.ts): validateCommand with   *)
(* validateTables, validateMetrics and outputJSON.  A discovered table is  *)
(* a name and the file behind it; reading the file may fail.               *)
(***************************************************************************)
\* a description of ten characters and more
LongDescriptionSection ==
    <<"nl", "#", "#", " ", "biao", "miao", "shu_state", "nl", "nl", "mei", "tian_day",
      "de", "xiao", "shou", "hui", "zong", "biao", ",", " ", "ri", "bao", "nl">>

\* a document that passes the validation
GoodDocument ==
    TitleFullWidth \o FullBasicInfo \o LongDescriptionSection
        \o FieldSection(<<RowId, RowAmount>>) \o PartitionSection

\* a document of the template that was not filled in: it fails the validation
UnfilledDocument ==
    TitleFullWidth \o BasicHeading \o LineOwnerPlaceholder \o LineSourcesTemplate
        \o FieldSection(<<RowId>>)

\* a document without a title line: parse throws
UntitledDocument == FullBasicInfo \o FieldSection(<<RowId>>)

Unreadable == [readable |-> FALSE, content |-> <<>>]
Readable(text) == [readable |-> TRUE, content |-> text]

FilePool ==
    {Unreadable, Readable(GoodDocument), Readable(UnfilledDocument), Readable(UntitledDocument)}

\* path.basename(entry.name, '.md') of the entries of the directory
TableNamesOfDirectory == <<"orders", "sales", "users", "items">>

\* the listings of a directory of up to MaxTables files
Listings ==
    {[i \in 1..Len(files) |-> [name |-> TableNamesOfDirectory[i], file |-> files[i]]] :
        files \in SeqsUpTo(FilePool, MaxTables)}

ValidateOptionsPool ==
    [type : {Undefined, Some("table"), Some("metric"), Some("all")},
     json : BOOLEAN, verbose : BOOLEAN]

\* options.type || 'all'
TypeOf(options) == IF options.type = Undefined THEN "all" ELSE options.type[1]

\* FileSystemUtils.readFile, parser.parse and validator.validate of one table:
\* the validation result, or the message of what was thrown
ReadParseValidate(file) ==
    IF ~file.readable
    THEN [outcome |-> "threw", message |-> "ENOENT"]
    ELSE LET tableDefinition == TableParserParse(file.content)
         IN  IF tableDefinition.outcome = "threw"
             THEN [outcome |-> "threw", message |-> tableDefinition.error.text]
             ELSE LET validationResult == validate(tableDefinition.value)
                  IN  IF validationResult.outcome = "threw"
                      THEN [outcome |-> "threw", message |-> validationResult.error]
                      ELSE [outcome |-> "returned", valid |-> validationResult.valid,
                            errors |-> validationResult.errors,
                            warnings |-> validationResult.warnings]

\* the same for every file there can be, worked out once
OutcomeOfFile == [file \in FilePool |-> ReadParseValidate(file)]

\* the entries results.errors gets for a table that fails
ValidationEntry(name, r) ==
    [name |-> name, type |-> "table", errors |-> Some(r.errors),
     warnings |-> Some(r.warnings), parseError |-> Undefined]

ParseErrorEntry(name, message) ==
    [name |-> name, type |-> "table", errors |-> Undefined,
     warnings |-> Undefined, parseError |-> Some(message)]

\* a loop whose catch branch counts nothing
CountedWithoutCatch(counters, name, r) ==
    IF r.outcome = "threw"
    THEN counters
    ELSE IF r.valid
    THEN [counters EXCEPT !.passed = @ + 1, !.warnings = @ + Len(r.warnings)]
    ELSE [counters EXCEPT !.failed = @ + 1,
                          !.errors = Append(@, ValidationEntry(name, r)),
                          !.warnings = @ + Len(r.warnings)]

\* the body of the for loop of validateTables for one table
Counted(counters, name, r) ==
    IF r.outcome = "threw"
    THEN [counters EXCEPT !.failed = @ + 1,
                          !.errors = Append(@, ParseErrorEntry(name, r.message))]
    ELSE IF r.valid
    THEN [counters EXCEPT !.passed = @ + 1, !.warnings = @ + Len(r.warnings)]
    ELSE [counters EXCEPT !.failed = @ + 1,
                          !.errors = Append(@, ValidationEntry(name, r)),
                          !.warnings = @ + Len(r.warnings)]

\* results.tables.failed + results.metrics.failed
TotalFailed(r) == r.tables.failed + r.metrics.failed

\* the status outputJSON prints
JSONStatus(r) == IF TotalFailed(r) = 0 THEN "success" ELSE "failed"

InitCommand ==
    /\ discovered \in [tables : Listings, metrics : {<<>>, <<"gmv">>}]
    /\ cmdOptions \in ValidateOptionsPool
    /\ results = [tables |-> NoResults, metrics |-> NoResults]
    /\ cursor = 0
    /\ pc = "validateTables"
    /\ exitCode = 0
    /\ output = Undefined
    /\ CoreIdle
    /\ ParserIdle
    /\ RegistryIdle

\* validateTables up to the loop: the total, and nothing more for no tables
DiscoverTables ==
    /\ pc = "validateTables"
    /\ IF TypeOf(cmdOptions) \in {"table", "all"}
       THEN /\ results' = [results EXCEPT !.tables.total = Len(discovered.tables)]
            /\ cursor' = 1
            /\ pc' = IF Len(discovered.tables) = 0 THEN "validateMetrics" ELSE "loop"
       ELSE /\ pc' = "validateMetrics"
            /\ UNCHANGED <<results, cursor>>
    /\ UNCHANGED <<table, result, dialect, sql, parserVars,
                   discovered, cmdOptions, exitCode, output, registryVars>>

\* one turn of the for loop of validateTables
ValidateTable ==
    /\ pc = "loop"
    /\ cursor <= Len(discovered.tables)
    /\ results' = [results EXCEPT !.tables =
                      Counted(@, discovered.tables[cursor].name,
                              OutcomeOfFile[discovered.tables[cursor].file])]
    /\ cursor' = cursor + 1
    /\ pc' = IF cursor + 1 > Len(discovered.tables) THEN "validateMetrics" ELSE "loop"
    /\ UNCHANGED <<table, result, dialect, sql, parserVars,
                   discovered, cmdOptions, exitCode, output, registryVars>>

\* validateMetrics: the total only
ValidateMetrics ==
    /\ pc = "validateMetrics"
    /\ results' = IF TypeOf(cmdOptions) \in {"metric", "all"}
                  THEN [results EXCEPT !.metrics.total = Len(discovered.metrics)]
                  ELSE results
    /\ pc' = "output"
    /\ UNCHANGED <<table, result, dialect, sql, parserVars,
                   discovered, cmdOptions, cursor, exitCode, output, registryVars>>

\* outputJSON or outputFriendly
Output ==
    /\ pc = "output"
    /\ output' = IF cmdOptions.json THEN Some(JSONStatus(results)) ELSE Undefined
    /\ pc' = "exit"
    /\ UNCHANGED <<table, result, dialect, sql, parserVars,
                   discovered, cmdOptions, results, cursor, exitCode, registryVars>>

\* process.exit(1) when something failed, the return otherwise
Exit ==
    /\ pc = "exit"
    /\ exitCode' = IF TotalFailed(results) > 0 THEN 1 ELSE 0
    /\ pc' = "done"
    /\ UNCHANGED <<table, result, dialect, sql, parserVars,
                   discovered, cmdOptions, results, cursor, output, registryVars>>

NextCommand == DiscoverTables \/ ValidateTable \/ ValidateMetrics \/ Output \/ Exit

\* the command runs to its end: nothing stops the event loop in between
SpecCommand == InitCommand /\ [][NextCommand]_vars /\ WF_vars(NextCommand)

(***************************************************************************)
(* C17: the table loop of the validate command.                            *)
(***************************************************************************)
\* the table loop runs for this command
LoopRuns == TypeOf(cmdOptions) \in {"table", "all"}

\* the tables the loop is through with
Processed ==
    IF ~LoopRuns \/ pc = "validateTables" THEN 0
    ELSE IF pc = "loop" THEN cursor - 1
    ELSE Len(discovered.tables)

\* what reading, parsing and validating each discovered table gives
OutcomeOfTables ==
    [i \in 1..Len(discovered.tables) |-> OutcomeOfFile[discovered.tables[i].file]]

Passes(r) == r.outcome = "returned" /\ r.valid
Throws(r) == r.outcome = "threw"

\* the positions, among the first n tables, of those that do not pass
FailingPositions(outcomes, n) == {i \in 1..n : ~Passes(outcomes[i])}

\* the entry of the k-th failing table is the k-th entry of the errors
EntryPosition(outcomes, i) == Cardinality(FailingPositions(outcomes, i))

AfterLoop == pc \in {"validateMetrics", "output", "exit", "done"}

\* each table gone through is counted once, as passed or as failed; every
\* failing one has its entry in the errors, in the order of the tables, and the
\* entry of a table whose read or parse threw carries the message as
\* parseError; after the loop passed + failed = total, the number of
\* discovered tables; exit code 1, and the status 'failed' of the JSON output,
\* go with failed > 0 and with nothing else
CountedOnce ==
    LET outcomes == OutcomeOfTables
        counters == results.tables
        failing == FailingPositions(outcomes, Processed)
    IN  /\ counters.failed = Cardinality(failing)
        /\ counters.passed = Processed - Cardinality(failing)
        /\ Len(counters.errors) = counters.failed
        /\ \A i \in failing :
              LET problem == counters.errors[EntryPosition(outcomes, i)]
              IN  /\ problem.name = discovered.tables[i].name
                  /\ IF Throws(outcomes[i])
                     THEN problem.parseError = Some(outcomes[i].message)
                     ELSE /\ problem.parseError = Undefined
                          /\ problem.errors = Some(outcomes[i].errors)
        /\ (AfterLoop /\ LoopRuns) =>
              /\ counters.total = Len(discovered.tables)
              /\ counters.passed + counters.failed = counters.total
        /\ pc = "done" => (exitCode = 1 <=> TotalFailed(results) > 0)
        /\ pc = "done" => (TotalFailed(results) > 0 <=> counters.failed > 0)
        /\ (pc \in {"exit", "done"} /\ cmdOptions.json) =>
              (output = Some("failed") <=> counters.failed > 0)
        /\ (pc \in {"exit", "done"} /\ cmdOptions.json /\ counters.failed = 0) =>
              output = Some("success")

\* C17: the table loop of the validate command goes through every discovered
\* table exactly once and a document whose read or parse throws does not stop
\* it: that document is counted as failed with a parseError entry and the
\* documents after it are still gone through, so that after the loop
\* passed + failed = total; the command always comes to its end, and it ends
\* with exit code 1 (and the JSON status 'failed') exactly when failed > 0.
ThmC17 == [](CountedOnce) /\ <>(pc = "done")

\* a command that ended after a table that could not be parsed was followed by
\* one that passed
WitC17 ==
    /\ pc = "done"
    /\ Len(discovered.tables) = 2
    /\ ~discovered.tables[1].file.readable \/ discovered.tables[1].file = Readable(UntitledDocument)
    /\ discovered.tables[2].file = Readable(GoodDocument)
    /\ results.tables.passed = 1
    /\ results.tables.failed = 1
    /\ exitCode = 1
    /\ cmdOptions.json
    /\ output = Some("failed")

\* a command that ended with nothing failed
WitC17Success ==
    /\ pc = "done"
    /\ Len(discovered.tables) = 2
    /\ results.tables.passed = 2
    /\ exitCode = 0
    /\ output = Some("success")

(***************************************************************************)
(* MetricParser (src/core/parsers/metric-parser.ts).  Its extractValue is  *)
(* the one of TableParser, line for line.                                  *)
(***************************************************************************)
WordMetricDefinition == <<"zhi", "biao_mark", "ding", "yi">>
WordCategory == <<"zhi", "biao_mark", "fen", "lei">>
WordBusinessDefinition == <<"ye", "wu", "ding", "yi">>
WordBusinessOwner == <<"ye", "wu", "kou", "jing", "fu", "ze", "ren">>
WordMainTable == <<"zhu", "biao">>
WordBusinessCaliber == <<"ye", "wu", "kou", "jing">>
WordFormula == <<"ji_count", "suan", "gong", "shi_form">>
WordLogic == <<"luo", "ji_edit">>
WordImplementation == <<"ji_tech", "shu_tech", "shi_real", "xian">>
WordDimensions == <<"wei_dim", "du">>
WordRelatedMetrics == <<"xiang", "guan", "zhi", "biao_mark">>
WordChangeHistory == <<"bian", "geng", "li_hist", "shi_hist">>

Fence == <<"backquote", "backquote", "backquote">>

MetricNameNotFound == [text |-> "metric name not found", args |-> <<>>]

\* content.match(/^#\s+<metric definition>[:：]\s*(.+)/m), trimmed
extractMetricName(s) ==
    LET afterColon(p) ==
            IF ~((p = 1 \/ s[p - 1] = NL) /\ MatchAt(s, p, <<"#">>)) THEN 0
            ELSE IF p + 1 > Len(s) \/ s[p + 1] \notin WhiteSpace THEN 0
            ELSE LET a == SkipSpaces(s, p + 1)
                 IN  IF /\ MatchAt(s, a, WordMetricDefinition)
                        /\ a + Len(WordMetricDefinition) <= Len(s)
                        /\ s[a + Len(WordMetricDefinition)] \in Colons
                     THEN a + Len(WordMetricDefinition) + 1 ELSE 0
        matches == {p \in 1..Len(s) :
                       afterColon(p) # 0 /\ CaptureStart(s, afterColon(p)) # 0}
    IN  IF matches = {}
        THEN [threw |-> TRUE, name |-> <<>>]
        ELSE [threw |-> FALSE, name |-> Trim(Capture(s, afterColon(Least(matches))))]

extractBusinessDefinition(s) ==
    IF SectionText(s, WordBusinessDefinition) = Undefined THEN <<>>
    ELSE Trim(SectionText(s, WordBusinessDefinition)[1])

\* <opening>[\s\S]*?```<tag>\n([\s\S]*?)``` from position e, the end of the
\* opening: <<text>> captured, <<>> when there is no such block.  With the tag
\* any ([^\n]*) the fence line is whatever runs to the end of its line.
CodeBlockFrom(s, e, tag) ==
    LET bodyStart(f) ==
            IF tag = "any"
            THEN IF LineEnd(s, f + 3) + 1 <= Len(s) THEN LineEnd(s, f + 3) + 2 ELSE 0
            ELSE IF MatchAt(s, f + 3, <<"s", "q", "l", NL>>) THEN f + 7 ELSE 0
        fences == {f \in e..Len(s) :
                      /\ MatchAt(s, f, Fence)
                      /\ bodyStart(f) # 0
                      /\ Find(s, bodyStart(f), Fence) # 0}
        open == Least(fences)
    IN  IF fences = {} THEN Undefined
        ELSE Some(SubSeq(s, bodyStart(open), Find(s, bodyStart(open), Fence) - 1))

\* <marks>\s*<title> at position h: the position after it, 0 when no match
MarkedHeadingEnd(s, h, marks, title) ==
    IF ~MatchAt(s, h, marks) THEN 0
    ELSE IF MatchAt(s, SkipSpaces(s, h + Len(marks)), title)
         THEN SkipSpaces(s, h + Len(marks)) + Len(title) ELSE 0

\* ###\s*SQL\s*<logic> at position h: the position after it, 0 when no match
SQLHeadingEnd(s, h) ==
    LET e == MarkedHeadingEnd(s, h, <<"#", "#", "#">>, <<"S", "Q", "L">>)
    IN  IF e = 0 THEN 0
        ELSE IF MatchAt(s, SkipSpaces(s, e), WordLogic)
             THEN SkipSpaces(s, e) + Len(WordLogic) ELSE 0

\* the first match of an opening followed by a code block: the leftmost
\* opening after which a block is found
FirstCodeBlock(s, ends, tag) ==
    LET matches == {h \in 1..Len(s) : ends[h] # 0 /\ CodeBlockFrom(s, ends[h], tag) # Undefined}
    IN  IF matches = {} THEN Undefined ELSE CodeBlockFrom(s, ends[Least(matches)], tag)

extractFormula(s) ==
    LET formulaMatch == FirstCodeBlock(s,
            [h \in 1..Len(s) |-> MarkedHeadingEnd(s, h, <<"#", "#", "#">>, WordBusinessCaliber)],
            "any")
        codeMatch == FirstCodeBlock(s,
            [h \in 1..Len(s) |-> MarkedHeadingEnd(s, h, <<"#", "#">>, WordFormula)], "any")
    IN  IF formulaMatch # Undefined THEN Trim(formulaMatch[1])
        ELSE IF codeMatch # Undefined THEN Trim(codeMatch[1])
        ELSE <<>>

extractSQLLogic(s) ==
    LET match == FirstCodeBlock(s, [h \in 1..Len(s) |-> SQLHeadingEnd(s, h)], "sql")
        techMatch == FirstCodeBlock(s,
            [h \in 1..Len(s) |-> MarkedHeadingEnd(s, h, <<"#", "#">>, WordImplementation)],
            "sql")
    IN  IF match # Undefined THEN Some(Trim(match[1]))
        ELSE IF techMatch # Undefined THEN Some(Trim(techMatch[1]))
        ELSE Undefined

\* the lines of a section that start with a dash
DashLines(text) ==
    SelectSeq(SplitOn(text, {NL}), LAMBDA l : MatchAt(Trim(l), 1, <<"-">>))

extractDimensions(s) ==
    IF ListSection(s, WordDimensions) = Undefined THEN <<>>
    ELSE SelectSeq(ListItems(ListSection(s, WordDimensions)[1]), LAMBDA x : x # <<>>)

\* line.match(/\[(.+?)\]/): <<name>> of the link, <<>> when there is none
LinkName(line) ==
    LET links == {i \in 1..Len(line) :
                     line[i] = "[" /\ \E j \in (i + 2)..Len(line) : line[j] = "]"}
        i == Least(links)
    IN  IF links = {} THEN Undefined
        ELSE Some(SubSeq(line, i + 1,
                         Least({j \in (i + 2)..Len(line) : line[j] = "]"}) - 1))

extractRelatedMetrics(s) ==
    IF ListSection(s, WordRelatedMetrics) = Undefined THEN Undefined
    ELSE LET lines == DashLines(ListSection(s, WordRelatedMetrics)[1])
             names == [i \in 1..Len(lines) |->
                          IF LinkName(lines[i]) # Undefined THEN LinkName(lines[i])[1]
                          ELSE StripDash(lines[i])]
             metrics == SelectSeq(names, LAMBDA x : x # <<>>)
         IN  IF Len(metrics) > 0 THEN Some(metrics) ELSE Undefined

\* parts.slice(1).join(':')
RECURSIVE JoinColon(_)
JoinColon(parts) ==
    IF Len(parts) = 0 THEN <<>>
    ELSE IF Len(parts) = 1 THEN parts[1]
    ELSE parts[1] \o <<":">> \o JoinColon(Tail(parts))

extractChangeHistory(s) ==
    IF ListSection(s, WordChangeHistory) = Undefined THEN Undefined
    ELSE LET texts == ListItems(ListSection(s, WordChangeHistory)[1])
             dated == SelectSeq(texts, LAMBDA x : Len(SplitOn(x, Colons)) >= 2)
             history == [i \in 1..Len(dated) |->
                            [date |-> Trim(SplitOn(dated[i], Colons)[1]),
                             description |-> Trim(JoinColon(Tail(SplitOn(dated[i], Colons))))]]
         IN  IF Len(history) > 0 THEN Some(history) ELSE Undefined

\* a || b of two strings
OrElse(a, b) == IF a # <<>> THEN a ELSE b

\* MetricParser.parse: the record, or the error of extractMetricName
MetricParserParse(s) ==
    IF extractMetricName(s).threw
    THEN [outcome |-> "threw", error |-> MetricNameNotFound]
    ELSE [outcome |-> "returned",
          value |-> [metadata           |-> [format |-> "dataspec-metric", version |-> "1.0"],
                     name               |-> extractMetricName(s).name,
                     category           |-> extractValue(s, WordCategory),
                     businessDefinition |-> extractBusinessDefinition(s),
                     owner              |-> OrElse(extractValue(s, WordBusinessOwner),
                                                   extractValue(s, WordOwner)),
                     formula            |-> extractFormula(s),
                     sqlLogic           |-> extractSQLLogic(s),
                     dataSource         |-> OrElse(extractValue(s, WordMainTable),
                                                   extractValue(s, WordDataSources)),
                     dimensions         |-> extractDimensions(s),
                     relatedMetrics     |-> extractRelatedMetrics(s),
                     changeHistory      |-> extractChangeHistory(s)]]

(***************************************************************************)
(* Metric documents, piece by piece.                                       *)
(***************************************************************************)
\* the title line of a metric document
MetricTitle ==
    <<"#", " ", "zhi", "biao_mark", "ding", "yi", "fullcolon", "G", "M",
      "V", "nl">>

MetricBasicInfo ==
    <<"nl", "#", "#", " ", "ji", "ben", "xin_info", "xi", "nl", "nl", "-",
      " ", "*", "*", "zhi", "biao_mark", "fen", "lei", "fullcolon", "*",
      "*", " ", "cai", "wu", "nl", "-", " ", "*", "*", "ye", "wu", "kou",
      "jing", "fu", "ze", "ren", "fullcolon", "*", "*", " ", "zhang",
      "san", "nl", "-", " ", "*", "*", "zhu", "biao", "fullcolon", "*",
      "*", " ", "d", "w", ".", "s", "a", "l", "e", "s", "_", "d", "a", "i",
      "l", "y", "nl">>

\* the labelled lines, not filled in; the owner under its second label
MetricBasicInfoUnfilled ==
    <<"nl", "#", "#", " ", "ji", "ben", "xin_info", "xi", "nl", "nl", "-",
      " ", "*", "*", "zhi", "biao_mark", "fen", "lei", "fullcolon", "*",
      "*", " ", "[", "qing", "tian", "xie", "]", "nl", "-", " ", "*", "*",
      "fu", "ze", "ren", "fullcolon", "*", "*", " ", "[", "qing", "tian",
      "xie", "]", " ", "zhang", "san", " ", "[", "qing", "tian", "xie",
      "]", "nl", "-", " ", "*", "*", "shu", "ju", "lai", "yuan",
      "fullcolon", "*", "*", " ", "o", "d", "s", ".", "o", "r", "d", "e",
      "r", "s", "nl">>

MetricBusinessDefinition ==
    <<"nl", "#", "#", " ", "ye", "wu", "ding", "yi", "nl", "nl", "xiao",
      "shou", "shou_recv", "ru", "zong", "e_amount", "nl">>

MetricFormula ==
    <<"nl", "#", "#", " ", "ji_count", "suan", "gong", "shi_form", "nl",
      "nl", "backquote", "backquote", "backquote", "nl", "S", "U", "M",
      "(", "a", "m", "t", ")", "nl", "backquote", "backquote", "backquote",
      "nl">>

\* the formula under the third-level heading, the fence with a tag
MetricCaliber ==
    <<"nl", "#", "#", "#", " ", "ye", "wu", "kou", "jing", "nl", "nl",
      "backquote", "backquote", "backquote", "t", "e", "x", "t", "nl", "S",
      "U", "M", "(", "a", "m", "t", ")", " ", "-", " ", "S", "U", "M", "(",
      "f", "e", "e", ")", "nl", "backquote", "backquote", "backquote",
      "nl">>

MetricImplementation ==
    <<"nl", "#", "#", " ", "ji_tech", "shu_tech", "shi_real", "xian", "nl",
      "nl", "backquote", "backquote", "backquote", "s", "q", "l", "nl",
      "S", "E", "L", "E", "C", "T", " ", "S", "U", "M", "(", "a", "m", "t",
      ")", " ", "F", "R", "O", "M", " ", "d", "w", ".", "s", "a", "l", "e",
      "s", "_", "d", "a", "i", "l", "y", "nl", "backquote", "backquote",
      "backquote", "nl">>

MetricDimensions ==
    <<"nl", "#", "#", " ", "wei_dim", "du", "nl", "nl", "-", " ", "ri",
      "qi", "nl", "-", " ", "di", "qu", "nl">>

\* one related metric as a link, one as plain text
MetricRelated ==
    <<"nl", "#", "#", " ", "xiang", "guan", "zhi", "biao_mark", "nl", "nl",
      "-", " ", "[", "ding_order", "dan", "shu", "]", "(", "o", "r", "d",
      "e", "r", "s", ".", "m", "d", ")", "nl", "-", " ", "shou_recv", "ru",
      "nl">>

\* one dated entry, one entry without a colon
MetricHistory ==
    <<"nl", "#", "#", " ", "bian", "geng", "li_hist", "shi_hist", "nl",
      "nl", "-", " ", "2", "0", "2", "4", "-", "0", "1", "-", "0", "1",
      ":", " ", "chu", "shi_begin", "chuang", "jian_build", "nl", "-", " ",
      "chu", "shi_begin", "nl">>
\* a metric document with every section
MetricDocument ==
    MetricTitle \o MetricBasicInfo \o MetricBusinessDefinition \o MetricFormula
        \o MetricCaliber \o MetricImplementation \o MetricDimensions
        \o MetricRelated \o MetricHistory

\* a metric document that was not filled in, without sections
MetricUnfilled == MetricTitle \o MetricBasicInfoUnfilled

\* the documents handed to the parsers: each parser throws on the documents
\* of the other
ParserDocuments == {GoodDocument, UnfilledDocument, MetricDocument, MetricUnfilled}

(***************************************************************************)
(* Parser instances called again and again: new TableParser() and          *)
(* new MetricParser() any number of times (the classes have no fields),    *)
(* then up to MaxCalls parse(content) calls, on any instance, in any       *)
(* order.                                                                  *)
(***************************************************************************)
InstancesOfClass == {"first", "second"}

Receiver(class, id) == [class |-> class, id |-> id]

Receivers == {Receiver(class, id) : class \in {"table", "metric"}, id \in InstancesOfClass}

\* a parser that keeps the record of its last call in the instance and hands
\* it out again
ParseCallRemembering(receiver, text) ==
    LET made == earlier \o (IF parsed = NotRun THEN <<>> ELSE <<parsed>>)
        own == {i \in 1..Len(made) : made[i].parser = receiver /\ made[i].outcome = "returned"}
    IN  IF own # {}
        THEN [outcome |-> "returned", value |-> made[Greatest(own)].value]
        ELSE IF receiver.class = "table" THEN TableParserParse(text)
        ELSE MetricParserParse(text)

\* receiver.parse(text)
ParseCall(receiver, text) ==
    IF receiver.class = "table" THEN TableParserParse(text) ELSE MetricParserParse(text)

\* the same for every receiver and document there can be, worked out once
OutcomeOfCall == [receiver \in Receivers, text \in ParserDocuments |-> ParseCall(receiver, text)]

InitCalls ==
    /\ content = <<>>
    /\ parsed = NotRun
    /\ earlier = <<>>
    /\ CoreIdle
    /\ CommandIdle
    /\ RegistryIdle

\* the calls made so far
CallsMade == earlier \o (IF parsed = NotRun THEN <<>> ELSE <<parsed>>)

Parse ==
    /\ Len(CallsMade) < MaxCalls
    /\ \E receiver \in Receivers, text \in ParserDocuments :
          /\ content' = text
          /\ parsed' = Parsed(receiver, text, OutcomeOfCall[receiver, text])
    /\ earlier' = CallsMade
    /\ UNCHANGED <<table, result, dialect, sql, commandVars, registryVars>>

NextCalls == Parse

SpecCalls == InitCalls /\ [][NextCalls]_vars

(***************************************************************************)
(* C15: parse is deterministic and independent of the calls made before.   *)
(***************************************************************************)
SameCall(a, b) == a.parser.class = b.parser.class /\ a.content = b.content

WitC15Threw ==
    /\ Len(earlier) = 2
    /\ SameCall(earlier[1], parsed)
    /\ earlier[1].parser # parsed.parser
    /\ earlier[2].parser.class # parsed.parser.class
    /\ parsed.outcome = "threw"
    /\ parsed.error = earlier[1].error

(***************************************************************************)
(* C21: the parts of the check SQL.                                        *)
(***************************************************************************)
TitleRowCount == "-- 1. row count check"
TitleNonNull == "-- 2. non-null check of the key fields"
TitleDuplicates == "-- 3. duplicate check"
TitleFluctuation == "-- 4. day-over-day row count fluctuation check"

\* the titles of the parts of a text, in the order of the text
TitlesIn(lines) ==
    LET titled == SelectSeq(lines, LAMBDA line : \E x \in CheckSectionTitles : StartsWith(line, x))
    IN  [i \in 1..Len(titled) |-> titled[i][1][1]]

\* the names of the fields declared non-nullable, in declaration order
NonNullableNames(t) ==
    LET required == SelectSeq(t.fields, LAMBDA f : f.nullable = FALSE)
    IN  [i \in 1..Len(required) |-> required[i].name]

\* the count-of-nulls expressions of some lines, in order
NullCounts(lines) == LinesStarting(lines, "    SUM(CASE WHEN ")

\* a count-of-nulls expression of the field of this name
IsNullCountOf(line, name) ==
    /\ Len(line) >= 5
    /\ line[2] = name
    /\ line[3] = L(" IS NULL THEN 1 ELSE 0 END) AS ")
    /\ line[4] = name
    /\ line[5] = L("_null_count")

\* the statement of C21 as it stands: parts 1, 2 and 3 are in every check
\* SQL, with part 4 after them for a table partitioned by dt
CexC21 ==
    CalledCheckSQL =>
        TitlesIn(sql.text) =
            <<TitleRowCount, TitleNonNull, TitleDuplicates>>
                \o (IF DtIsPartitionKey(table) THEN <<TitleFluctuation>> ELSE <<>>)

\* C21 (amended): generateCheckSQL always produces part 1 (row count) and part
\* 3 (duplicate placeholder), part 2 (non-null) only for a table with at least
\* one field with nullable == false, and part 4 (fluctuation) only for a table
\* partitioned by dt, each once and in the order 1, 2, 3, 4; part 2 contains
\* exactly one SUM(CASE WHEN <name> IS NULL ...) expression for each field
\* with nullable == false, in declaration order, and none for a nullable
\* field; no other part contains such an expression.
ThmC21 ==
    CalledCheckSQL =>
        LET names == NonNullableNames(table)
            counts == NullCounts(Section(sql.text, TitleNonNull))
        IN  /\ TitlesIn(sql.text) =
                  <<TitleRowCount>>
                      \o (IF Len(names) > 0 THEN <<TitleNonNull>> ELSE <<>>)
                      \o <<TitleDuplicates>>
                      \o (IF DtIsPartitionKey(table) THEN <<TitleFluctuation>> ELSE <<>>)
            /\ Len(counts) = Len(names)
            /\ \A i \in 1..Len(names) : IsNullCountOf(counts[i], names[i])
            /\ Len(NullCounts(sql.text)) = Len(counts)

\* the check SQL of a table with a nullable field before a non-nullable one,
\* partitioned by dt: four parts, one expression
WitC21 ==
    /\ CalledCheckSQL
    /\ table.fields = <<GenAmount, GenDt>>
    /\ DtIsPartitionKey(table)
    /\ TitlesIn(sql.text) = <<TitleRowCount, TitleNonNull, TitleDuplicates, TitleFluctuation>>
    /\ Len(NullCounts(Section(sql.text, TitleNonNull))) = 1
    /\ IsNullCountOf(NullCounts(sql.text)[1], NameDt)

\* two non-nullable fields: two expressions, in declaration order
WitC21Order ==
    /\ CalledCheckSQL
    /\ table.fields = <<GenDt, GenId>>
    /\ IsNullCountOf(NullCounts(sql.text)[1], NameDt)
    /\ IsNullCountOf(NullCounts(sql.text)[2], NameId)

\* the check SQL of a table with nullable fields only: no part 2
WitC21NoRequired ==
    /\ CalledCheckSQL
    /\ table.fields = <<GenAmount>>
    /\ TitlesIn(sql.text) = <<TitleRowCount, TitleDuplicates>>

(***************************************************************************)
(* C22: the checks of validate do not short-circuit each other.            *)
(***************************************************************************)
\* what each of the six checks finds for a table when it is run on its own,
\* in the order validate runs them
OwnFindings(t) ==
    <<TableDefinitionSchema(t),
      validateTableName(t, <<>>).errors,
      validateFields(t, <<>>),
      validateOwner(t, <<>>),
      validateDescription(t, <<>>),
      validateDataSources(t, <<>>)>>

\* the findings of the six checks one after the other
InCheckOrder(t) ==
    LET own == OwnFindings(t)
    IN  own[1] \o own[2] \o own[3] \o own[4] \o own[5] \o own[6]

\* validate was called
Validated == result # NotRun

\* C22 (as claimed): for every table the findings of each of the six checks
\* (schema, name, field, owner, description, data source) are reported
\* whatever the other checks found, pooled in that order, so that errors and
\* warnings each keep it.
CexC22 ==
    Validated =>
        /\ Returned
        /\ result.errors = SelectSeq(InCheckOrder(table), IsError)
        /\ result.warnings = SelectSeq(InCheckOrder(table), IsWarning)

\* the same for the calls that return
ReturnedInCheckOrder ==
    Returned =>
        /\ result.errors = SelectSeq(InCheckOrder(table), IsError)
        /\ result.warnings = SelectSeq(InCheckOrder(table), IsWarning)

\* a call that threw in the name check although the later checks have
\* findings of their own
ThrewBeforeLaterChecks ==
    /\ Validated
    /\ ~Returned
    /\ Len(OwnFindings(table)[2]) > 0
    /\ Len(OwnFindings(table)[4]) > 0

(***************************************************************************)
(* C23: the table description, in the schema and in the business rule.     *)
(***************************************************************************)
\* the findings of a list that are about the table description
AboutDescription(findings, type) ==
    SelectSeq(findings, LAMBDA e : e.type = type /\ e.path = <<"description">>)

\* C23: whenever validate returns, a table description shorter than 10
\* characters (the empty string included) has fired both layers: there is one
\* SCHEMA_ERROR error with path 'description' and one INSUFFICIENT_DESCRIPTION
\* warning with path 'description', and valid is false; a description of 10
\* or more characters has produced neither.
ThmC23 ==
    Returned =>
        LET schema == AboutDescription(result.errors, "SCHEMA_ERROR")
            rule == AboutDescription(result.warnings, "INSUFFICIENT_DESCRIPTION")
        IN  /\ OfType(result.errors, "INSUFFICIENT_DESCRIPTION") = <<>>
            /\ Len(OfType(result.warnings, "INSUFFICIENT_DESCRIPTION")) = Len(rule)
            /\ IF Len(table.description) < 10
               THEN /\ Len(schema) = 1
                    /\ Len(rule) = 1
                    /\ ~result.valid
               ELSE /\ schema = <<>>
                    /\ rule = <<>>

\* a table whose only flaw is a description of nine characters: one error,
\* one warning, invalid
WitC23 ==
    /\ Returned
    /\ Len(table.description) = 9
    /\ Len(result.errors) = 1
    /\ result.errors[1].type = "SCHEMA_ERROR"
    /\ result.errors[1].path = <<"description">>
    /\ Len(AboutDescription(result.warnings, "INSUFFICIENT_DESCRIPTION")) = 1
    /\ ~result.valid

\* a valid table with a description of exactly ten characters
WitC23AtLimit ==
    /\ Returned
    /\ Len(table.description) = 10
    /\ result.valid
    /\ result.warnings = <<>>

(***************************************************************************)
(* C24: the per-field check.  The index of a field is its position in      *)
(* fields, counted from 0.                                                 *)
(***************************************************************************)
\* the findings of a type at a path
At(findings, type, path) ==
    SelectSeq(findings, LAMBDA e : e.type = type /\ e.path = path)

RulePath(i, attr) == <<"fields[", ToString(i), attr>>
SchemaPath(i, attr) == <<"fields", ".", ToString(i), ".", attr>>

\* the error-severity findings about the description of the field at index i
DescriptionErrors(i) ==
    SelectSeq(result.errors,
              LAMBDA e : e.path \in {RulePath(i, "].description"), SchemaPath(i, "description")})

\* the name and description findings of the business rule are as C24 says
FieldRuleFindings ==
    \A k \in 1..Len(table.fields) :
        LET field == table.fields[k]
            i == k - 1
        IN  /\ Len(At(result.errors, "INVALID_FIELD_NAME", RulePath(i, "].name")))
                 = (IF MatchesFieldName(field.name) THEN 0 ELSE 1)
            /\ Len(At(result.warnings, "INSUFFICIENT_FIELD_DESCRIPTION",
                      RulePath(i, "].description")))
                 = (IF Len(field.description) < 2 THEN 1 ELSE 0)
            /\ At(result.warnings, "INVALID_FIELD_NAME", RulePath(i, "].name")) = <<>>
            /\ At(result.errors, "INSUFFICIENT_FIELD_DESCRIPTION",
                  RulePath(i, "].description")) = <<>>

WitC24WarningOnly ==
    /\ Returned
    /\ table.fields = <<FieldX, FieldY>>
    /\ result.valid
    /\ Len(result.warnings) = 1

\* a field with an empty description: the warning and the schema error
WitC24Empty ==
    /\ Returned
    /\ table.fields = <<FieldX, FieldXBlank>>
    /\ Len(DescriptionErrors(1)) = 1
    /\ Len(At(result.warnings, "INSUFFICIENT_FIELD_DESCRIPTION",
              RulePath(1, "].description"))) = 1

(***************************************************************************)
(* C25: the name check.                                                    *)
(***************************************************************************)
\* the name findings of a result are as C25 says: the error for a name that
\* does not match, the warning for a local portion of more than 50 characters
NameFindingsAsClaimed ==
    LET parts == SplitDot(table.name)
        tooLong == Len(parts) >= 2 /\ Len(parts[2]) > 50
    IN  /\ Len(OfType(result.errors, "INVALID_TABLE_NAME"))
             = (IF MatchesTableName(table.name) THEN 0 ELSE 1)
        /\ Len(OfType(result.warnings, "TABLE_NAME_TOO_LONG")) = (IF tooLong THEN 1 ELSE 0)
        /\ OfType(result.warnings, "INVALID_TABLE_NAME") = <<>>
        /\ OfType(result.errors, "TABLE_NAME_TOO_LONG") = <<>>
        /\ (tooLong /\ MatchesTableName(table.name)
              /\ Len(result.errors) = 0) => result.valid

\* C25 (as claimed): validate emits an INVALID_TABLE_NAME error exactly when
\* the table name does not match ^[a-z_]+\.[a-z_]+$ and a TABLE_NAME_TOO_LONG
\* warning exactly when the portion after the dot is longer than 50
\* characters; the warning leaves valid true.
CexC25 == Validated => (Returned /\ NameFindingsAsClaimed)

\* the same for the calls that return
ReturnedNameFindings == Returned => NameFindingsAsClaimed

\* a call for a name without a dot: no INVALID_TABLE_NAME is reported
ThrewOnName ==
    /\ Validated
    /\ ~Returned
    /\ ~MatchesTableName(table.name)

\* a valid table with a local name of 51 characters, and one of 50
TooLongStillValid ==
    /\ Returned
    /\ table.name = NameLocalOverLimit
    /\ result.valid
    /\ Len(OfType(result.warnings, "TABLE_NAME_TOO_LONG")) = 1

(***************************************************************************)
(* One generator called again and again: new SQLGenerator(dialect), then  *)
(* up to MaxGeneratorCalls calls of generateDDL, generateETL and           *)
(* generateCheckSQL for the same table, with any options, on any day.      *)
(***************************************************************************)
TableByDt == [BaseTable EXCEPT !.fields = <<GenId, GenDt>>,
                               !.partitionKeys = Some(<<NameDt>>)]

CallTables == {BaseTable, TableByDt}

CallDialects == {"hive", "maxcompute", "oracle"}

CallOptions ==
    [dialect : {Undefined, Some("mysql"), Some("oracle")},
     includeComments : {Undefined, Some(FALSE)}]

\* a generator that keeps the dialect of its last call as its default
GeneratorCallSticky(op, default, t, options, currentDate) ==
    LET kept == IF sql = NotRun THEN default
                ELSE EffectiveDialect(sql.options, default)
    IN  CASE op = "generateDDL" -> generateDDL(kept, t, options, currentDate)
          [] op = "generateETL" -> generateETL(kept, t, options, currentDate)
          [] OTHER              -> Text(generateCheckSQL(t, currentDate))

\* generator[op](table, options) of a generator constructed with default
GeneratorCall(op, default, t, options, currentDate) ==
    CASE op = "generateDDL" -> generateDDL(default, t, options, currentDate)
      [] op = "generateETL" -> generateETL(default, t, options, currentDate)
      [] OTHER              -> Text(generateCheckSQL(t, currentDate))

InitGeneratorCalls ==
    /\ table \in CallTables
    /\ dialect \in CallDialects
    /\ result = NotRun
    /\ sql = NotRun
    /\ ParserIdle
    /\ CommandIdle
    /\ RegistryIdle

\* the generator calls made so far
GeneratorCallsMade == earlier \o (IF sql = NotRun THEN <<>> ELSE <<sql>>)

CallDDL ==
    \E options \in CallOptions, date \in Dates :
        /\ Len(GeneratorCallsMade) < MaxGeneratorCalls
        /\ sql' = Call("generateDDL", options, date,
                       GeneratorCall("generateDDL", dialect, table, options, date))
        /\ earlier' = GeneratorCallsMade
        /\ UNCHANGED <<table, result, dialect, content, parsed, commandVars, registryVars>>

CallETL ==
    \E options \in CallOptions, date \in Dates :
        /\ Len(GeneratorCallsMade) < MaxGeneratorCalls
        /\ sql' = Call("generateETL", options, date,
                       GeneratorCall("generateETL", dialect, table, options, date))
        /\ earlier' = GeneratorCallsMade
        /\ UNCHANGED <<table, result, dialect, content, parsed, commandVars, registryVars>>

CallCheckSQL ==
    \E date \in Dates :
        /\ Len(GeneratorCallsMade) < MaxGeneratorCalls
        /\ sql' = Call("generateCheckSQL", NoOptions, date,
                       GeneratorCall("generateCheckSQL", dialect, table, NoOptions, date))
        /\ earlier' = GeneratorCallsMade
        /\ UNCHANGED <<table, result, dialect, content, parsed, commandVars, registryVars>>

NextGeneratorCalls == CallDDL \/ CallETL \/ CallCheckSQL

SpecGeneratorCalls == InitGeneratorCalls /\ [][NextGeneratorCalls]_vars

(***************************************************************************)
(* C26: the generator keeps nothing from one call to the next.             *)
(***************************************************************************)
\* two calls of the same operation with the same arguments on the same day
SameGeneratorCall(a, b) == a.op = b.op /\ a.options = b.options /\ a.date = b.date

\* what a call has come to
Outcome(c) == [outcome |-> c.outcome, text |-> c.text, error |-> c.error]

\* every call made so far came to what the first call of a new generator of
\* the same default dialect comes to, and to the same as every other call
\* with its arguments
IndependentOfEarlierCalls ==
    /\ \A i \in 1..Len(GeneratorCallsMade) :
          LET c == GeneratorCallsMade[i]
          IN  Outcome(c) =
                 (CASE c.op = "generateDDL" -> generateDDL(dialect, table, c.options, c.date)
                    [] c.op = "generateETL" -> generateETL(dialect, table, c.options, c.date)
                    [] OTHER -> Text(generateCheckSQL(table, c.date)))
    /\ \A i, j \in 1..Len(GeneratorCallsMade) :
          SameGeneratorCall(GeneratorCallsMade[i], GeneratorCallsMade[j]) =>
              Outcome(GeneratorCallsMade[i]) = Outcome(GeneratorCallsMade[j])

WitC26AfterThrow ==
    /\ Len(earlier) = 1
    /\ earlier[1].outcome = "threw"
    /\ sql.outcome = "returned"
    /\ sql.op = "generateETL"

(***************************************************************************)
(* C27: the placeholder sentinel in the values of the labelled lines.      *)
(***************************************************************************)
\* the first owner line of the text holds the sentinel and nothing else
OwnerLineOnlySentinel(text) == Trim(LabeledValue(text, 1, WordOwner)) = Placeholder

\* C27 (as claimed): for every document, the values TableParser.parse
\* extracts from the labelled lines (displayName, owner and each element of
\* dataSources) never contain the sentinel, and dataSources never contains an
\* empty string; a document whose owner line holds only the sentinel is
\* reported by validate with the NO_OWNER error.
CexC27 ==
    ParseReturned =>
        /\ ~Includes(parsed.value.displayName, Placeholder)
        /\ ~Includes(parsed.value.owner, Placeholder)
        /\ \A i \in 1..Len(parsed.value.dataSources) :
              /\ ~Includes(parsed.value.dataSources[i], Placeholder)
              /\ parsed.value.dataSources[i] # <<>>
        /\ OwnerLineOnlySentinel(content) =>
              /\ validate(parsed.value).outcome = "returned"
              /\ Len(OfType(validate(parsed.value).errors, "NO_OWNER")) = 1

\* the part of C27 about the data sources and about the owner line that holds
\* only the sentinel
SourcesStripped ==
    ParseReturned =>
        /\ \A i \in 1..Len(parsed.value.dataSources) :
              /\ ~Includes(parsed.value.dataSources[i], Placeholder)
              /\ parsed.value.dataSources[i] # <<>>
        /\ (OwnerLineOnlySentinel(content) \/ Includes(parsed.value.owner, Placeholder)) =>
              /\ validate(parsed.value).outcome = "returned"
              /\ Len(OfType(validate(parsed.value).errors, "NO_OWNER")) = 1

\* a document whose owner is the sentinel after the stripping
OwnerStillSentinel ==
    /\ ParseReturned
    /\ parsed.value.owner = Placeholder
    /\ parsed.value.displayName = Placeholder

(***************************************************************************)
(* C28: the types of the PARTITIONED BY clause.                            *)
(***************************************************************************)
\* a DDL text was returned for Hive or MaxCompute
RenderedPartitionedDDL ==
    /\ CalledDDL
    /\ sql.outcome = "returned"
    /\ CalledDialect \in {"hive", "maxcompute"}

\* the fields of the table that carry a name
FieldsNamed(t, key) == SelectSeq(t.fields, LAMBDA f : f.name = key)

\* C28: in the PARTITIONED BY clause of the Hive and MaxCompute DDL, a
\* partition key that names no field of the table is still declared, with type
\* STRING; a key that names a field is declared with the type the dialect
\* maps the type of that field to (of the first field, when several carry the
\* name).
ThmC28 ==
    (RenderedPartitionedDDL /\ PartitionKeysOf(table) # <<>>) =>
        LET keys == PartitionKeysOf(table)
            clause == PartitionClause(sql.text)
        IN  /\ Len(clause) = Len(keys)
            /\ \A i \in 1..Len(keys) :
                  /\ ColumnName(clause[i], CalledDialect) = keys[i]
                  /\ ColumnType(clause[i], CalledDialect) =
                        (IF FieldsNamed(table, keys[i]) = <<>> THEN L("STRING")
                         ELSE AmendedType(CalledDialect, FieldsNamed(table, keys[i])[1].type))

\* a MaxCompute DDL of a table partitioned by dt and id, where dt is a field
\* and id is not: dt with its mapped type, id as STRING
WitC28 ==
    /\ RenderedPartitionedDDL
    /\ CalledDialect = "maxcompute"
    /\ table.fields = <<GenAmount, GenDt>>
    /\ table.partitionKeys = Some(<<NameDt, NameId>>)
    /\ ColumnName(PartitionClause(sql.text)[2], "maxcompute") = NameId
    /\ ColumnType(PartitionClause(sql.text)[2], "maxcompute") = L("STRING")
    /\ ColumnType(PartitionClause(sql.text)[1], "maxcompute")
          = AmendedType("maxcompute", TypeDATE)

\* a Hive DDL whose partition key is a field of type BIGINT
WitC28Mapped ==
    /\ RenderedPartitionedDDL
    /\ CalledDialect = "hive"
    /\ table.partitionKeys = Some(<< <<"c">> >>)
    /\ table.fields[1].type = TypeBIGINT
    /\ ColumnType(PartitionClause(sql.text)[1], "hive") = L("BIGINT")

(***************************************************************************)
(* The command registry of the slash commands: a map from id to command,   *)
(* a map from category to the list of its commands, register and execute.  *)
(* A Map is modelled by the sequence of its values in insertion order.     *)
(***************************************************************************)
IdGen == <<"g", "e", "n">>
IdVal == <<"v", "a", "l">>

\* the name each command id goes by
NameOfId(id) == IF id = IdGen THEN <<"M", "a", "k", "e">> ELSE <<"C", "h", "e", "c", "k">>

\* deprecated and deprecatedMessage as the commands of an id carry them
DeprecationsOf(id) ==
    {[deprecated |-> FALSE, message |-> Undefined],
     IF id = IdGen
     THEN [deprecated |-> TRUE, message |-> Undefined]
     ELSE [deprecated |-> TRUE, message |-> Some("use another command")]}

\* the CommandDefinitions handed to register: id, name, category, deprecated
\* and deprecatedMessage (the handler is a function, its behaviour is drawn
\* when it is called)
CommandPool ==
    UNION {{[id |-> id, name |-> NameOfId(id), category |-> category,
             deprecated |-> d.deprecated, deprecatedMessage |-> d.message] :
                category \in {"generate", "validate"}, d \in DeprecationsOf(id)} :
           id \in {IdGen, IdVal}}

\* the command ids handed to execute: the registered ones, and ids that are
\* a part of a registered id or name in some letter case
ExecutedIds == {IdGen, IdVal, <<"V", "A", "L">>, <<"m", "a", "k", "e">>}

\* the CommandResults a handler returns, with and without its own executionTime
HandlerResults ==
    {[success |-> TRUE, message |-> "done", executionTime |-> Undefined],
     [success |-> TRUE, message |-> "done", executionTime |-> Some(7)],
     [success |-> FALSE, message |-> "nothing to do", executionTime |-> Undefined]}

\* what a handler does when it is called: it returns a result, throws an
\* Error, throws a value that is not an Error, or returns a promise that
\* rejects with an Error
HandlerBehaviours ==
    {[kind |-> "returns", result |-> r] : r \in HandlerResults}
    \cup {[kind |-> "throws", error |-> [isError |-> TRUE, message |-> "boom"]],
          [kind |-> "throws", error |-> [isError |-> FALSE, message |-> "oops"]],
          [kind |-> "rejects", error |-> [isError |-> TRUE, message |-> "late"]]}

\* Date.now() - startTime
ElapsedTimes == {0, 1}

\* Map.has
Has(cmds, id) == \E i \in 1..Len(cmds) : cmds[i].id = id

\* Map.set: the value of an existing key is replaced where it is, a new key
\* goes to the end
MapSet(cmds, command) ==
    IF Has(cmds, command.id)
    THEN [i \in 1..Len(cmds) |-> IF cmds[i].id = command.id THEN command ELSE cmds[i]]
    ELSE Append(cmds, command)

\* register: the command is set in the id map and pushed to the list of its
\* category
register(reg, command) ==
    [commands |-> MapSet(reg.commands, command),
     categories |-> [reg.categories EXCEPT
                        ![command.category] = Append(@, command)]]

\* get: the command of an id, <<>> for undefined
get(cmds, commandId) ==
    IF Has(cmds, commandId)
    THEN Some(cmds[CHOOSE i \in 1..Len(cmds) : cmds[i].id = commandId])
    ELSE Undefined

\* getAll
getAll(cmds) == cmds

\* getByCategory
getByCategory(cats, category) == cats[category]

\* getStats: all three numbers are counted over the id map
getStats(cmds) ==
    [total |-> Len(cmds),
     byCategory |-> [category \in {cmds[i].category : i \in 1..Len(cmds)} |->
                        Len(SelectSeq(cmds, LAMBDA cmd : cmd.category = category))],
     deprecated |-> Len(SelectSeq(cmds, LAMBDA cmd : cmd.deprecated))]

\* Array.prototype.slice(0, n)
FirstOnes(seq, n) == SubSeq(seq, 1, IF Len(seq) < n THEN Len(seq) ELSE n)

\* getSuggestions: '/id' of up to three other commands whose id or name
\* includes the id asked for, letter case aside
getSuggestions(cmds, commandId) ==
    LET lowercaseCommandId == ToLowerCase(commandId)
        matching == SelectSeq(cmds, LAMBDA cmd :
                        /\ cmd.id # commandId
                        /\ \/ Includes(ToLowerCase(cmd.id), lowercaseCommandId)
                           \/ Includes(ToLowerCase(cmd.name), lowercaseCommandId))
    IN  FirstOnes([i \in 1..Len(matching) |-> <<"/", matching[i].id>>], 3)

\* getAlternatives: '/id' of up to three commands of the category that are
\* not deprecated
getAlternatives(cats, deprecatedCommand) ==
    LET live == SelectSeq(getByCategory(cats, deprecatedCommand.category),
                          LAMBDA cmd : ~cmd.deprecated)
    IN  FirstOnes([i \in 1..Len(live) |-> <<"/", live[i].id>>], 3)

\* the result of execute for an id that get does not find
NotFoundResult(cmds, commandId) ==
    [success |-> FALSE,
     message |-> <<"Unknown command: ", commandId>>,
     errors |-> << [code |-> "COMMAND_NOT_FOUND",
                    message |-> <<"Command '", commandId, "' is not registered">>,
                    severity |-> "error",
                    suggestions |-> getSuggestions(cmds, commandId)] >>,
     executionTime |-> 0]

\* the result of execute for a deprecated command
DeprecatedResult(cats, command, commandId) ==
    LET alternatives == getAlternatives(cats, command)
    IN  [success |-> FALSE,
         message |-> <<"Deprecated command: ", commandId>>,
         errors |-> << [code |-> "COMMAND_DEPRECATED",
                        message |-> IF command.deprecatedMessage # Undefined
                                    THEN <<command.deprecatedMessage[1]>>
                                    ELSE <<"Command '", commandId, "' is deprecated">>,
                        severity |-> "warning"] >>,
         suggestions |-> [i \in 1..Len(alternatives) |->
                             [command |-> alternatives[i],
                              description |-> <<"Use ", alternatives[i], " instead">>,
                              reason |-> "Alternative command"]],
         executionTime |-> 0]

\* the result of the catch block: the message of an Error, String(error) of
\* another value; the stack of an Error only
ExecutionErrorResult(error) ==
    [success |-> FALSE,
     message |-> <<"Command execution failed: ", error.message>>,
     errors |-> << [code |-> "EXECUTION_ERROR",
                    message |-> <<error.message>>,
                    severity |-> "error",
                    stack |-> IF error.isError THEN Some("stack") ELSE Undefined] >>,
     executionTime |-> 0]

\* the handler's result with its own executionTime, or the measured one
TimedResult(handlerResult, elapsed) ==
    [handlerResult EXCEPT !.executionTime =
        IF handlerResult.executionTime # Undefined
        THEN handlerResult.executionTime[1] ELSE elapsed]

\* a promise that resolves to a value, with whether the handler was called
Resolved(value, invoked) == [outcome |-> "resolved", value |-> value, invoked |-> invoked]

\* a promise that rejects with an error
Rejected(error, invoked) == [outcome |-> "rejected", error |-> error, invoked |-> invoked]

\* execute without the try block around the handler
executeWithoutTry(reg, commandId, behaviour, elapsed) ==
    LET command == get(reg.commands, commandId)
    IN  IF command = Undefined
        THEN Resolved(NotFoundResult(reg.commands, commandId), FALSE)
        ELSE IF command[1].deprecated
        THEN Resolved(DeprecatedResult(reg.categories, command[1], commandId), FALSE)
        ELSE IF behaviour.kind = "returns"
        THEN Resolved(TimedResult(behaviour.result, elapsed), TRUE)
        ELSE Rejected(behaviour.error, TRUE)

\* execute: the promise it returns, for what the handler does when called
\* and the time measured around the call
execute(reg, commandId, behaviour, elapsed) ==
    LET command == get(reg.commands, commandId)
    IN  IF command = Undefined
        THEN Resolved(NotFoundResult(reg.commands, commandId), FALSE)
        ELSE IF command[1].deprecated
        THEN Resolved(DeprecatedResult(reg.categories, command[1], commandId), FALSE)
        ELSE IF behaviour.kind = "returns"
        THEN Resolved(TimedResult(behaviour.result, elapsed), TRUE)
        ELSE Resolved(ExecutionErrorResult(behaviour.error), TRUE)

\* the two maps of the registry
Registry == [commands |-> commands, categories |-> categories]

\* the register calls made so far: each one pushed one entry to a list
Registrations ==
    LET RECURSIVE Sum(_)
        Sum(S) == IF S = {} THEN 0
                  ELSE LET c == CHOOSE x \in S : TRUE
                       IN  Len(categories[c]) + Sum(S \ {c})
    IN  Sum(CommandCategory)

InitRegistry ==
    /\ RegistryIdle
    /\ CoreIdle
    /\ ParserIdle
    /\ CommandIdle

\* registry.register(command)
Register ==
    /\ Registrations < MaxRegistrations
    /\ \E command \in CommandPool :
        /\ commands' = register(Registry, command).commands
        /\ categories' = register(Registry, command).categories
    /\ UNCHANGED <<table, result, dialect, sql, parserVars, commandVars, executed>>

\* await registry.execute(commandId, args, options, context), once in a run
Execute ==
    /\ executed = NotRun
    /\ \E commandId \in ExecutedIds, behaviour \in HandlerBehaviours,
          elapsed \in ElapsedTimes :
        executed' = [commandId |-> commandId, behaviour |-> behaviour,
                     promise |-> execute(Registry, commandId, behaviour, elapsed)]
    /\ UNCHANGED <<table, result, dialect, sql, parserVars, commandVars,
                   commands, categories>>

NextRegistry == Register \/ Execute

SpecRegistry == InitRegistry /\ [][NextRegistry]_vars

(***************************************************************************)
(* C29: the category index against the id map.                             *)
(***************************************************************************)
\* the positions of the category lists: a category and an index in its list
CategoryEntries ==
    {e \in CommandCategory \X (1..MaxRegistrations) :
        e[2] <= Len(getByCategory(categories, e[1]))}

\* the command at a position of the category lists
EntryAt(e) == getByCategory(categories, e[1])[e[2]]

\* every entry of a category list is the command the id map holds for its id,
\* listed under the category that command has
NoStaleEntry ==
    \A e \in CategoryEntries :
        /\ get(commands, EntryAt(e).id) = Some(EntryAt(e))
        /\ EntryAt(e).category = e[1]

\* every command of the id map has one entry in the category lists
OneEntryPerId ==
    \A i \in 1..Len(getAll(commands)) :
        Cardinality({e \in CategoryEntries : EntryAt(e).id = getAll(commands)[i].id}) = 1

\* C29: after any sequence of register calls the commands getByCategory
\* returns over all categories are the commands getAll returns, one entry for
\* each registered id, also when an id was registered again.
CexC29 == NoStaleEntry /\ OneEntryPerId

\* no id was registered twice: the lists hold one entry for each register call
NoIdRegisteredAgain ==
    \A e, f \in CategoryEntries : EntryAt(e).id = EntryAt(f).id => e = f

\* the index agrees with the map as long as no id is registered again
AgreesWithoutOverwrite == NoIdRegisteredAgain => (NoStaleEntry /\ OneEntryPerId)

\* an id registered twice under one category: the list holds it twice, and
\* getStats, counted over the id map, counts it once
RegisteredAgain ==
    /\ Len(getAll(commands)) = 1
    /\ Len(getByCategory(categories, "generate")) = 2
    /\ getStats(commands).byCategory["generate"] = 1

\* an id registered again under another category: the old category still
\* lists the command the id map no longer holds
StaleAfterMove ==
    /\ Len(getAll(commands)) = 1
    /\ getAll(commands)[1].category = "validate"
    /\ Len(getByCategory(categories, "generate")) = 1
    /\ getByCategory(categories, "generate")[1].id = getAll(commands)[1].id

(***************************************************************************)
(* C30: what execute resolves to.                                          *)
(***************************************************************************)
\* the code of the one error of a result
ErrorCode(value) == value.errors[1].code

\* a failed result with one error of a code
FailsWith(promise, code) ==
    /\ promise.outcome = "resolved"
    /\ promise.value.success = FALSE
    /\ Len(promise.value.errors) = 1
    /\ ErrorCode(promise.value) = code

\* the attributes every CommandResult has
IsCommandResult(value) ==
    /\ {"success", "message", "executionTime"} \subseteq DOMAIN value
    /\ value.success \in BOOLEAN
    /\ value.executionTime \in Nat

\* the commands the id map holds for an id, at the time of the call
RegisteredAs(commandId) == SelectSeq(commands, LAMBDA cmd : cmd.id = commandId)

\* an execute call ends in this step
ExecuteEnds == executed = NotRun /\ executed' # NotRun

\* the call that ends in this step is as the claim says
ExecutedAsClaimed ==
    LET commandId == executed'.commandId
        behaviour == executed'.behaviour
        promise == executed'.promise
        found == RegisteredAs(commandId)
    IN  /\ promise.outcome = "resolved"
        /\ IsCommandResult(promise.value)
        /\ found = <<>> =>
              /\ FailsWith(promise, "COMMAND_NOT_FOUND")
              /\ ~promise.invoked
        /\ (found # <<>> /\ found[1].deprecated) =>
              /\ FailsWith(promise, "COMMAND_DEPRECATED")
              /\ ~promise.invoked
        /\ (found # <<>> /\ ~found[1].deprecated
                /\ behaviour.kind \in {"throws", "rejects"}) =>
              /\ FailsWith(promise, "EXECUTION_ERROR")
              /\ promise.invoked
        /\ commands' = commands
        /\ categories' = categories

\* C30: execute always resolves to a CommandResult and never rejects: for an
\* id that is not registered the result has success = false and the code
\* COMMAND_NOT_FOUND, for a deprecated command success = false and the code
\* COMMAND_DEPRECATED without the handler being called, for a handler that
\* throws (or whose promise rejects) success = false and the code
\* EXECUTION_ERROR; the two maps of the registry are left as they were.
ThmC30 == [][ExecuteEnds => ExecutedAsClaimed]_vars

\* an unknown id in another letter case, with the registered command suggested
WitC30 ==
    /\ executed # NotRun
    /\ executed.commandId = <<"V", "A", "L">>
    /\ FailsWith(executed.promise, "COMMAND_NOT_FOUND")
    /\ executed.promise.value.errors[1].suggestions = << <<"/", IdVal>> >>

\* a deprecated command with its own message and a live command of its
\* category as the alternative: the handler, which would throw, is not called
WitC30Deprecated ==
    /\ executed # NotRun
    /\ executed.commandId = IdVal
    /\ executed.behaviour.kind = "throws"
    /\ FailsWith(executed.promise, "COMMAND_DEPRECATED")
    /\ ~executed.promise.invoked
    /\ executed.promise.value.errors[1].message = <<"use another command">>
    /\ Len(executed.promise.value.suggestions) = 1
    /\ executed.promise.value.suggestions[1].command = <<"/", IdGen>>

\* a handler throws a value that is not an Error
WitC30Threw ==
    /\ executed # NotRun
    /\ executed.behaviour.kind = "throws"
    /\ ~executed.behaviour.error.isError
    /\ FailsWith(executed.promise, "EXECUTION_ERROR")
    /\ executed.promise.value.errors[1].stack = Undefined
    /\ executed.promise.invoked

\* a handler's promise rejects
WitC30Rejected ==
    /\ executed # NotRun
    /\ executed.behaviour.kind = "rejects"
    /\ FailsWith(executed.promise, "EXECUTION_ERROR")

\* a handler returns a result without executionTime: the measured time is added
WitC30Returned ==
    /\ executed # NotRun
    /\ executed.behaviour.kind = "returns"
    /\ executed.behaviour.result.executionTime = Undefined
    /\ executed.promise.invoked
    /\ executed.promise.value.success
    /\ executed.promise.value.executionTime = 1

====
